---- MODULE Spec2Model ----
(***************************************************************************)
(* bgparse: a zero-copy decoder of BGP-4 and BMP v3 wire messages.         *)
(*                                                                         *)
(* A byte slice is a sequence of naturals in 0..255.  Rust slices are      *)
(* 0-based, TLA+ sequences 1-based: At(s, i) is s[i], Take(s, n) is        *)
(* &s[..n] and Drop(s, n) is &s[n..].  An index or a slice bound beyond    *)
(* the slice panics in Rust; the operators below return Panic there.       *)
(***************************************************************************)
EXTENDS Integers, Sequences, FiniteSets, TLC

VARIABLES
    raw,            \* the buffer handed to a top-level decode
    four_byte_asn,  \* session flag
    add_path,       \* session flag
    proto,          \* which entry point the run exercises
    pc,             \* position of the caller
    result,         \* what the last decode returned
    acc,            \* what the last Update accessor returned
    it,             \* the iterator under iteration
    encl,           \* the slice the iterator was created over
    hist            \* what next() has returned so far, oldest first

vars == <<raw, four_byte_asn, add_path, proto, pc, result, acc, it, encl, hist>>

----------------------------------------------------------------------------
(* Slices *)

At(s, i) == s[i + 1]
Take(s, n) == SubSeq(s, 1, n)
Drop(s, n) == SubSeq(s, n + 1, Len(s))
Pad(n) == [i \in 1..n |-> 0]

(* Result<T>: Ok carries the variant's name and the bytes the view borrows. *)
Ok(t, b) == [ok |-> TRUE, tag |-> t, inner |-> b]
Err(e) == [ok |-> FALSE, tag |-> e, inner |-> <<>>]
BadLength == Err("BadLength")
Invalid == Err("Invalid")
Panic == Err("Panic")
NoResult == Err("none")

----------------------------------------------------------------------------
(* Bounds of the model *)

\* longest body (bytes after the 19-byte envelope) of a framed BGP message
MaxBody == 11
\* longest body (bytes after the 6-byte common header) of a BMP message
MaxBmpBody == 3

----------------------------------------------------------------------------
(* types.rs *)

VALID_BGP_MARKER == [i \in 1..16 |-> 255]

----------------------------------------------------------------------------
(* message/open: Open::from_bytes, called by Message::from_bytes on the   *)
(* whole message.  Its file is not part of the sources; Open::new checks   *)
(* the 10-byte fixed part of the body.                                     *)

OpenFromBytes(b) ==
    IF Len(b) - 19 < 10 THEN BadLength ELSE Ok("Open", b)

(* message/update/mod.rs: Update::from_bytes *)

UpdateFromBytes(b, fba, ap) ==
    IF Len(b) < 19 + 4 THEN BadLength ELSE Ok("Update", b)

----------------------------------------------------------------------------
(* message/mod.rs: Message::from_bytes *)

MessageFromBytes_NoUpperBound(b, fba, ap) ==
    IF Len(b) < 19 THEN BadLength
    ELSE IF Take(b, 16) # VALID_BGP_MARKER THEN Invalid
    ELSE LET message == Drop(b, 16)
             message_len == At(message, 0) * 256 + At(message, 1)
             message_type == At(message, 2)
         IN  IF message_len # Len(b) THEN BadLength
             ELSE CASE message_type = 1 -> OpenFromBytes(b)
                    [] message_type = 2 -> UpdateFromBytes(b, fba, ap)
                    [] message_type = 3 -> Ok("Notification", <<>>)
                    [] message_type = 4 -> Ok("KeepAlive", <<>>)
                    [] message_type = 5 -> Ok("Refresh", <<>>)
                    [] OTHER -> Invalid

MessageFromBytes_MarkerFirstByte(b, fba, ap) ==
    IF Len(b) < 19 \/ Len(b) > 4096 THEN BadLength
    ELSE IF At(b, 0) # 255 THEN Invalid
    ELSE LET message == Drop(b, 16)
             message_len == At(message, 0) * 256 + At(message, 1)
             message_type == At(message, 2)
         IN  IF message_len # Len(b) THEN BadLength
             ELSE CASE message_type = 1 -> OpenFromBytes(b)
                    [] message_type = 2 -> UpdateFromBytes(b, fba, ap)
                    [] message_type = 3 -> Ok("Notification", <<>>)
                    [] message_type = 4 -> Ok("KeepAlive", <<>>)
                    [] message_type = 5 -> Ok("Refresh", <<>>)
                    [] OTHER -> Invalid

MessageFromBytes_RefreshIsSix(b, fba, ap) ==
    IF Len(b) < 19 \/ Len(b) > 4096 THEN BadLength
    ELSE IF Take(b, 16) # VALID_BGP_MARKER THEN Invalid
    ELSE LET message == Drop(b, 16)
             message_len == At(message, 0) * 256 + At(message, 1)
             message_type == At(message, 2)
         IN  IF message_len # Len(b) THEN BadLength
             ELSE CASE message_type = 1 -> OpenFromBytes(b)
                    [] message_type = 2 -> UpdateFromBytes(b, fba, ap)
                    [] message_type = 3 -> Ok("Notification", <<>>)
                    [] message_type = 4 -> Ok("KeepAlive", <<>>)
                    [] message_type = 6 -> Ok("Refresh", <<>>)
                    [] OTHER -> Invalid

MessageFromBytes(b, fba, ap) ==
    IF Len(b) < 19 \/ Len(b) > 4096 THEN BadLength
    ELSE IF Take(b, 16) # VALID_BGP_MARKER THEN Invalid
    ELSE LET message == Drop(b, 16)
             message_len == At(message, 0) * 256 + At(message, 1)
             message_type == At(message, 2)
         IN  IF message_len # Len(b) THEN BadLength
             ELSE CASE message_type = 1 -> OpenFromBytes(b)
                    [] message_type = 2 -> UpdateFromBytes(b, fba, ap)
                    [] message_type = 3 -> Ok("Notification", <<>>)
                    [] message_type = 4 -> Ok("KeepAlive", <<>>)
                    [] message_type = 5 -> Ok("Refresh", <<>>)
                    [] OTHER -> Invalid

----------------------------------------------------------------------------
(* bmp/mod.rs: Bmp::from_bytes *)

BmpVariant(bmp_type) ==
    CASE bmp_type = 0 -> "RouteMonitoring"
      [] bmp_type = 1 -> "StatisticsReport"
      [] bmp_type = 2 -> "PeerDownNotification"
      [] bmp_type = 3 -> "PeerUpNotification"
      [] bmp_type = 4 -> "Initiation"
      [] bmp_type = 5 -> "Termination"
      [] bmp_type = 6 -> "RouteMirroring"
      [] OTHER -> "Invalid"

\* the common header's version byte is not examined
BmpFromBytes_AnyVersion(bytes) ==
    IF Len(bytes) < 6 THEN BadLength
    ELSE LET message_length == At(bytes, 1) * 16777216 + At(bytes, 2) * 65536
                               + At(bytes, 3) * 256 + At(bytes, 4)
             bmp_type == At(bytes, 5)
         IN  IF Len(bytes) # message_length THEN BadLength
             ELSE IF bmp_type \in 0..6 THEN Ok(BmpVariant(bmp_type), bytes)
             ELSE Invalid

BmpFromBytes_LengthAtMost(bytes) ==
    IF Len(bytes) < 6 THEN BadLength
    ELSE IF At(bytes, 0) # 3 THEN Invalid
    ELSE LET message_length == At(bytes, 1) * 16777216 + At(bytes, 2) * 65536
                               + At(bytes, 3) * 256 + At(bytes, 4)
             bmp_type == At(bytes, 5)
         IN  IF Len(bytes) > message_length THEN BadLength
             ELSE IF bmp_type \in 0..6 THEN Ok(BmpVariant(bmp_type), bytes)
             ELSE Invalid

BmpFromBytes(bytes) ==
    IF Len(bytes) < 6 THEN BadLength
    ELSE IF At(bytes, 0) # 3 THEN Invalid
    ELSE LET message_length == At(bytes, 1) * 16777216 + At(bytes, 2) * 65536
                               + At(bytes, 3) * 256 + At(bytes, 4)
             bmp_type == At(bytes, 5)
         IN  IF Len(bytes) # message_length THEN BadLength
             ELSE IF bmp_type \in 0..6 THEN Ok(BmpVariant(bmp_type), bytes)
             ELSE Invalid

----------------------------------------------------------------------------
(* The framing harness: a caller holds one buffer, decodes it, and may     *)
(* then decode the same buffer with its last byte removed.                 *)

BadMarkers ==
    { [VALID_BGP_MARKER EXCEPT ![k] = v] : k \in {1, 8, 16}, v \in {0, 254} }

Markers == {VALID_BGP_MARKER} \cup BadMarkers

MessageTypes == 0..6 \cup {255}

\* framed and mis-framed messages with a body of at most MaxBody bytes
ShortBgpBuffers ==
    { m \o <<hi, lo, ty>> \o [i \in 1..n |-> v] :
        m \in Markers, hi \in {0, 1}, lo \in {0} \cup 18..(20 + MaxBody),
        ty \in MessageTypes, n \in 0..MaxBody, v \in {0, 1} }

\* buffers shorter than the envelope
TinyBgpBuffers ==
    { Take(VALID_BGP_MARKER \o <<0, lo, 4>>, n) : lo \in {18, 19}, n \in 0..18 }

\* buffers at and just beyond the 4096-byte limit (4096 = 16 * 256)
LongBgpBuffers ==
    { m \o <<16, lo, ty>> \o Pad(4096 - 19 + k) :
        m \in {VALID_BGP_MARKER, [VALID_BGP_MARKER EXCEPT ![16] = 0]},
        lo \in {0, 1}, ty \in {1, 2, 3, 4, 5, 9}, k \in {0, 1} }

BgpBuffers == ShortBgpBuffers \cup TinyBgpBuffers \cup LongBgpBuffers

BmpFramed ==
    { <<ver>> \o len4 \o <<ty>> \o Pad(n) :
        ver \in {0, 3, 4},
        len4 \in { <<0, 0, 0, lo>> : lo \in 0..(7 + MaxBmpBody) }
                 \cup { <<1, 0, 0, 6>>, <<0, 1, 0, 6>>, <<0, 0, 1, 6>> },
        ty \in 0..7 \cup {255},
        n \in 0..MaxBmpBody }

\* whole buffers, and buffers cut short of the 6-byte common header
BmpBuffers == BmpFramed \cup { Take(b, k) : b \in BmpFramed, k \in {0, 5} }

Idle == [kind |-> "none", inner |-> <<>>, error |-> FALSE,
         four_byte |-> FALSE, add_paths |-> FALSE]

InitMsg ==
    /\ proto \in {"bgp", "bmp"}
    /\ raw \in IF proto = "bgp" THEN BgpBuffers ELSE BmpBuffers
    /\ four_byte_asn \in BOOLEAN
    /\ add_path = FALSE
    /\ pc = "start"
    /\ result = NoResult
    /\ acc = NoResult
    /\ it = Idle
    /\ encl = <<>>
    /\ hist = <<>>

DecodeBgp ==
    /\ pc = "start"
    /\ proto = "bgp"
    /\ result' = MessageFromBytes(raw, four_byte_asn, add_path)
    /\ pc' = "decoded"
    /\ UNCHANGED <<raw, four_byte_asn, add_path, proto, acc, it, encl, hist>>

DecodeBmp ==
    /\ pc = "start"
    /\ proto = "bmp"
    /\ result' = BmpFromBytes(raw)
    /\ pc' = "decoded"
    /\ UNCHANGED <<raw, four_byte_asn, add_path, proto, acc, it, encl, hist>>

(* The caller drops the last byte of a buffer that decoded and decodes again. *)
TruncateBgp ==
    /\ pc = "decoded"
    /\ proto = "bgp"
    /\ result.ok
    /\ raw' = Take(raw, Len(raw) - 1)
    /\ result' = MessageFromBytes(raw', four_byte_asn, add_path)
    /\ pc' = "truncated"
    /\ UNCHANGED <<four_byte_asn, add_path, proto, acc, it, encl, hist>>

TruncateBmp ==
    /\ pc = "decoded"
    /\ proto = "bmp"
    /\ result.ok
    /\ raw' = Take(raw, Len(raw) - 1)
    /\ result' = BmpFromBytes(raw')
    /\ pc' = "truncated"
    /\ UNCHANGED <<four_byte_asn, add_path, proto, acc, it, encl, hist>>

NextMsg == DecodeBgp \/ DecodeBmp \/ TruncateBgp \/ TruncateBmp

SpecMsg == InitMsg /\ [][NextMsg]_vars

----------------------------------------------------------------------------
(* Claims about framing, checked under SpecMsg *)

LenField(b) == At(b, 16) * 256 + At(b, 17)

Framed(b) ==
    /\ Len(b) \in 19..4096
    /\ Take(b, 16) = VALID_BGP_MARKER
    /\ LenField(b) = Len(b)

\* C1: Message::from_bytes returns BadLength when the buffer is shorter than
\* 19 or longer than 4096 bytes, and, the marker being valid, when the length
\* field at bytes 16-17 differs from the buffer's length; every message that
\* decodes has declared length = buffer length, within 19..4096.
C1_FramingLength ==
    (proto = "bgp" /\ pc = "decoded") =>
        /\ (Len(raw) < 19 \/ Len(raw) > 4096) => result = BadLength
        /\ ( /\ Len(raw) \in 19..4096
             /\ Take(raw, 16) = VALID_BGP_MARKER
             /\ LenField(raw) # Len(raw) ) => result = BadLength
        /\ result.ok => (Len(raw) \in 19..4096 /\ LenField(raw) = Len(raw))

\* a 4097-byte buffer, well formed in everything but its size, was refused
C1_Witness ==
    /\ proto = "bgp" /\ pc = "decoded"
    /\ Len(raw) = 4097 /\ LenField(raw) = 4097
    /\ Take(raw, 16) = VALID_BGP_MARKER /\ At(raw, 18) = 4
    /\ result = BadLength

\* C2: a buffer of 19..4096 bytes whose first 16 bytes are not all 0xFF
\* decodes to Invalid, whatever its length field and type; no buffer with
\* another marker decodes.
C2_MarkerRejected ==
    (proto = "bgp" /\ pc = "decoded") =>
        /\ (Len(raw) \in 19..4096 /\ Take(raw, 16) # VALID_BGP_MARKER)
              => result = Invalid
        /\ result.ok => Take(raw, 16) = VALID_BGP_MARKER

\* only the marker's last byte is off; length field and type are those of a
\* KEEPALIVE
C2_Witness ==
    /\ proto = "bgp" /\ pc = "decoded"
    /\ Len(raw) = 19 /\ LenField(raw) = 19 /\ At(raw, 18) = 4
    /\ Take(raw, 15) = Take(VALID_BGP_MARKER, 15) /\ At(raw, 15) = 254
    /\ result = Invalid

\* C3 as stated: a framed buffer decodes by its type byte to Open (1),
\* Update (2), Notification (3), KeepAlive (4), Refresh (5) and to Invalid
\* for every other type.
C3_DispatchAsStated ==
    (proto = "bgp" /\ pc = "decoded" /\ Framed(raw)) =>
        LET ty == At(raw, 18)
        IN  CASE ty = 1 -> result.ok /\ result.tag = "Open"
              [] ty = 2 -> result.ok /\ result.tag = "Update"
              [] ty = 3 -> result.ok /\ result.tag = "Notification"
              [] ty = 4 -> result.ok /\ result.tag = "KeepAlive"
              [] ty = 5 -> result.ok /\ result.tag = "Refresh"
              [] OTHER -> result = Invalid

\* C3 amended: type 1 gives Open when at least 10 bytes follow the envelope
\* and BadLength otherwise, type 2 gives Update when at least 4 bytes follow
\* the envelope and BadLength otherwise, 3 Notification, 4 KeepAlive,
\* 5 Refresh, every other type Invalid.
C3_Dispatch ==
    (proto = "bgp" /\ pc = "decoded" /\ Framed(raw)) =>
        LET ty == At(raw, 18)
        IN  CASE ty = 1 -> result = IF Len(raw) >= 29 THEN Ok("Open", raw)
                                    ELSE BadLength
              [] ty = 2 -> result = IF Len(raw) >= 23 THEN Ok("Update", raw)
                                    ELSE BadLength
              [] ty = 3 -> result = Ok("Notification", <<>>)
              [] ty = 4 -> result = Ok("KeepAlive", <<>>)
              [] ty = 5 -> result = Ok("Refresh", <<>>)
              [] OTHER -> result = Invalid

\* a framed 22-byte message of type 2 was refused with BadLength
C3_Witness ==
    /\ proto = "bgp" /\ pc = "decoded" /\ Framed(raw)
    /\ At(raw, 18) = 2 /\ Len(raw) = 22
    /\ result = BadLength

\* C9: a buffer that decodes as a BGP or as a BMP message gives BadLength
\* once its last byte is removed (already at the top-level decode, so never
\* a decode and an iteration without BadLength).
C9_TruncatedIsBadLength ==
    pc = "truncated" => result = BadLength

\* a BMP message of 8 bytes decoded; its first 7 bytes, which still hold the
\* whole common header, did not
C9_Witness ==
    /\ pc = "truncated" /\ proto = "bmp"
    /\ Len(raw) = 7 /\ At(raw, 0) = 3 /\ At(raw, 4) = 8
    /\ result = BadLength

----------------------------------------------------------------------------
(* message/update/mod.rs: the accessors of an Update view u (u.inner is    *)
(* the whole message).  None of them checks a bound before it slices.      *)

\* every k-byte slice over alphabet S, for k up to n
Slices(S, n) == UNION { [1..k -> S] : k \in 0..n }

UpdateValue(u) == Drop(u.inner, 19)

WithdrawnRoutesLen(u) ==
    At(UpdateValue(u), 0) * 256 + At(UpdateValue(u), 1)

\* value()[offset] and value()[offset+1] must exist
TotalPathAttrLenInBounds(u) ==
    WithdrawnRoutesLen(u) + 2 + 1 < Len(UpdateValue(u))

TotalPathAttrLen(u) ==
    LET offset == WithdrawnRoutesLen(u) + 2
    IN  At(UpdateValue(u), offset) * 256 + At(UpdateValue(u), offset + 1)

UpdateWithdrawnRoutes(u) ==
    LET rest == Drop(UpdateValue(u), 2)
    IN  IF WithdrawnRoutesLen(u) > Len(rest) THEN Panic
        ELSE Ok("WithdrawnRoutes", Take(rest, WithdrawnRoutesLen(u)))

UpdatePathAttrs(u) ==
    LET offset == 4 + WithdrawnRoutesLen(u)
    IN  IF offset > Len(UpdateValue(u)) THEN Panic
        ELSE IF ~TotalPathAttrLenInBounds(u) THEN Panic
        ELSE IF TotalPathAttrLen(u) > Len(Drop(UpdateValue(u), offset)) THEN Panic
        ELSE Ok("PathAttrIter",
                Take(Drop(UpdateValue(u), offset), TotalPathAttrLen(u)))

UpdateNlris(u) ==
    IF ~TotalPathAttrLenInBounds(u) THEN Panic
    ELSE LET offset == 4 + WithdrawnRoutesLen(u) + TotalPathAttrLen(u)
         IN  IF offset > Len(UpdateValue(u)) THEN Panic
             ELSE Ok("NlriIter", Drop(UpdateValue(u), offset))

----------------------------------------------------------------------------
(* The UPDATE harness: a framed message of type 2 is decoded and the       *)
(* caller asks the view for its three sequences.                           *)

\* longest body of an UPDATE
MaxUpdBody == 6

UpdateBytes == {0, 1, 2, 3}

UpdateBuffers ==
    { VALID_BGP_MARKER \o <<0, 19 + Len(body), 2>> \o body :
        body \in Slices(UpdateBytes, MaxUpdBody) }

InitUpd ==
    /\ proto = "bgp"
    /\ raw \in UpdateBuffers
    /\ four_byte_asn \in BOOLEAN
    /\ add_path \in BOOLEAN
    /\ pc = "start"
    /\ result = NoResult
    /\ acc = NoResult
    /\ it = Idle
    /\ encl = <<>>
    /\ hist = <<>>

DecodeUpdate ==
    /\ pc = "start"
    /\ result' = MessageFromBytes(raw, four_byte_asn, add_path)
    /\ pc' = "decoded"
    /\ UNCHANGED <<raw, four_byte_asn, add_path, proto, acc, it, encl, hist>>

CallWithdrawnRoutes ==
    /\ pc \in {"decoded", "accessed"}
    /\ result.ok /\ result.tag = "Update"
    /\ acc' = UpdateWithdrawnRoutes(result)
    /\ pc' = "accessed"
    /\ UNCHANGED <<raw, four_byte_asn, add_path, proto, result, it, encl, hist>>

CallPathAttrs ==
    /\ pc \in {"decoded", "accessed"}
    /\ result.ok /\ result.tag = "Update"
    /\ acc' = UpdatePathAttrs(result)
    /\ pc' = "accessed"
    /\ UNCHANGED <<raw, four_byte_asn, add_path, proto, result, it, encl, hist>>

CallNlris ==
    /\ pc \in {"decoded", "accessed"}
    /\ result.ok /\ result.tag = "Update"
    /\ acc' = UpdateNlris(result)
    /\ pc' = "accessed"
    /\ UNCHANGED <<raw, four_byte_asn, add_path, proto, result, it, encl, hist>>

NextUpd == DecodeUpdate \/ CallWithdrawnRoutes \/ CallPathAttrs \/ CallNlris

SpecUpd == InitUpd /\ [][NextUpd]_vars

\* the declared inner lengths do not fit the body after the 19-byte header
InnerLengthsInconsistent(b) ==
    LET body == Drop(b, 19)
        wlen == At(body, 0) * 256 + At(body, 1)
    IN  \/ Len(body) < 4
        \/ 2 + wlen + 2 > Len(body)
        \/ 2 + wlen + 2 + (At(body, wlen + 2) * 256 + At(body, wlen + 3)) > Len(body)

\* C4: Update construction fails with BadLength whenever the declared
\* withdrawn-routes length or total path attribute length does not fit the
\* body, so on every constructed Update the slices of withdrawn_routes(),
\* path_attrs() and nlris() lie inside the body (no accessor panics).
C4_InnerLengthsChecked ==
    /\ (pc \in {"decoded", "accessed"} /\ InnerLengthsInconsistent(raw))
          => result = BadLength
    /\ pc = "accessed" => acc # Panic

----------------------------------------------------------------------------
(* bgp/update/path_attr/mod.rs: the path attribute decoder.                *)

FLAG_EXT_LEN == 16

\* x & bit > 0, for bit a power of two
HasBit(x, bit) == (x \div bit) % 2 = 1

\* message/update/path_attr/mp_reach_nlri.rs: value[0..2] is read unchecked
MpReachFromBytes(bytes) ==
    IF Len(bytes) < 4 THEN BadLength
    ELSE LET flags == At(bytes, 0)
             value == IF HasBit(flags, FLAG_EXT_LEN) THEN Drop(bytes, 4)
                      ELSE Drop(bytes, 3)
         IN  IF Len(value) < 3 THEN Panic
             ELSE LET afi == At(value, 0) * 256 + At(value, 1)
                      safi == At(value, 2)
                  IN  CASE afi = 1 /\ safi = 1 -> Ok("MpReachNlri.Ipv4Unicast", value)
                        [] afi = 1 /\ safi = 2 -> Ok("MpReachNlri.Ipv4Multicast", value)
                        [] afi = 2 /\ safi = 1 -> Ok("MpReachNlri.Ipv6Unicast", value)
                        [] afi = 2 /\ safi = 2 -> Ok("MpReachNlri.Ipv6Multicast", value)
                        [] OTHER -> Ok("MpReachNlri.Other", value)

\* the only construction of MpUnreachNlri in the sources keeps the bytes
MpUnreachFromBytes(bytes) == Ok("MpUnreachNlri", bytes)

OpaqueAttrName(attr_type) ==
    CASE attr_type = 3 -> "NextHop"
      [] attr_type = 8 -> "Communities"
      [] attr_type = 10 -> "ClusterList"
      [] attr_type = 16 -> "ExtendedCommunities"
      [] attr_type = 17 -> "As4Path"
      [] attr_type = 18 -> "As4Aggregator"
      [] attr_type = 22 -> "PmsiTunnel"
      [] attr_type = 23 -> "TunnelEncapAttr"
      [] attr_type = 24 -> "TrafficEngineering"
      [] attr_type = 25 -> "Ipv6AddrSpecificExtCommunity"
      [] attr_type = 26 -> "Aigp"
      [] attr_type = 27 -> "PeDistinguisherLabels"
      [] attr_type = 29 -> "BgpLs"
      [] attr_type = 128 -> "AttrSet"
      [] OTHER -> "Other"

\* the length is read from one byte even when ExtendedLength is set
PathAttrFromBytes_OneByteLen(bytes, fba) ==
    IF Len(bytes) < 3 THEN BadLength
    ELSE LET attr_flags == At(bytes, 0)
             attr_type == At(bytes, 1)
             is_extended == HasBit(attr_flags, FLAG_EXT_LEN)
         IN  IF is_extended /\ Len(bytes) < 4 THEN BadLength
             ELSE LET attr_len == At(bytes, 2)
                      Fixed(n, v) == IF attr_len = n THEN Ok(v, bytes) ELSE Invalid
                  IN  CASE attr_type = 0 -> Invalid
                        [] attr_type = 1 -> Fixed(1, "Origin")
                        [] attr_type = 2 ->
                             IF fba THEN Ok("As4Path", bytes) ELSE Ok("AsPath", bytes)
                        [] attr_type = 4 -> Fixed(4, "MultiExitDisc")
                        [] attr_type = 5 -> Fixed(4, "LocalPreference")
                        [] attr_type = 6 -> Fixed(0, "AtomicAggregate")
                        [] attr_type = 7 ->
                             IF attr_len = 8 /\ fba THEN Ok("As4Aggregator", bytes)
                             ELSE IF attr_len = 6 /\ ~fba THEN Ok("Aggregator", bytes)
                             ELSE Invalid
                        [] attr_type = 9 -> Fixed(4, "OriginatorId")
                        [] attr_type = 14 ->
                             LET r == MpReachFromBytes(bytes)
                             IN  IF r.ok THEN Ok("MpReachNlri", bytes) ELSE r
                        [] attr_type = 15 -> MpUnreachFromBytes(bytes)
                        [] OTHER -> Ok(OpaqueAttrName(attr_type), bytes)

\* code 2 decoded as As4Path whatever the session flag
PathAttrFromBytes_Code2As4Path(bytes, fba) ==
    IF Len(bytes) < 3 THEN BadLength
    ELSE LET attr_flags == At(bytes, 0)
             attr_type == At(bytes, 1)
             is_extended == HasBit(attr_flags, FLAG_EXT_LEN)
         IN  IF is_extended /\ Len(bytes) < 4 THEN BadLength
             ELSE LET attr_len == IF is_extended
                                  THEN At(bytes, 2) * 256 + At(bytes, 3)
                                  ELSE At(bytes, 2)
                      Fixed(n, v) == IF attr_len = n THEN Ok(v, bytes) ELSE Invalid
                  IN  CASE attr_type = 0 -> Invalid
                        [] attr_type = 1 -> Fixed(1, "Origin")
                        [] attr_type = 2 ->
                             Ok("As4Path", bytes)
                        [] attr_type = 4 -> Fixed(4, "MultiExitDisc")
                        [] attr_type = 5 -> Fixed(4, "LocalPreference")
                        [] attr_type = 6 -> Fixed(0, "AtomicAggregate")
                        [] attr_type = 7 ->
                             IF attr_len = 8 /\ fba THEN Ok("As4Aggregator", bytes)
                             ELSE IF attr_len = 6 /\ ~fba THEN Ok("Aggregator", bytes)
                             ELSE Invalid
                        [] attr_type = 9 -> Fixed(4, "OriginatorId")
                        [] attr_type = 14 ->
                             LET r == MpReachFromBytes(bytes)
                             IN  IF r.ok THEN Ok("MpReachNlri", bytes) ELSE r
                        [] attr_type = 15 -> MpUnreachFromBytes(bytes)
                        [] OTHER -> Ok(OpaqueAttrName(attr_type), bytes)

\* code 7 decodes under either length, the variant chosen by the flag
PathAttrFromBytes_AggregatorByFlagOnly(bytes, fba) ==
    IF Len(bytes) < 3 THEN BadLength
    ELSE LET attr_flags == At(bytes, 0)
             attr_type == At(bytes, 1)
             is_extended == HasBit(attr_flags, FLAG_EXT_LEN)
         IN  IF is_extended /\ Len(bytes) < 4 THEN BadLength
             ELSE LET attr_len == IF is_extended
                                  THEN At(bytes, 2) * 256 + At(bytes, 3)
                                  ELSE At(bytes, 2)
                      Fixed(n, v) == IF attr_len = n THEN Ok(v, bytes) ELSE Invalid
                  IN  CASE attr_type = 0 -> Invalid
                        [] attr_type = 1 -> Fixed(1, "Origin")
                        [] attr_type = 2 ->
                             IF fba THEN Ok("As4Path", bytes) ELSE Ok("AsPath", bytes)
                        [] attr_type = 4 -> Fixed(4, "MultiExitDisc")
                        [] attr_type = 5 -> Fixed(4, "LocalPreference")
                        [] attr_type = 6 -> Fixed(0, "AtomicAggregate")
                        [] attr_type = 7 ->
                             IF attr_len \in {6, 8} /\ fba THEN Ok("As4Aggregator", bytes)
                             ELSE IF attr_len \in {6, 8} THEN Ok("Aggregator", bytes)
                             ELSE Invalid
                        [] attr_type = 9 -> Fixed(4, "OriginatorId")
                        [] attr_type = 14 ->
                             LET r == MpReachFromBytes(bytes)
                             IN  IF r.ok THEN Ok("MpReachNlri", bytes) ELSE r
                        [] attr_type = 15 -> MpUnreachFromBytes(bytes)
                        [] OTHER -> Ok(OpaqueAttrName(attr_type), bytes)

PathAttrFromBytes(bytes, fba) ==
    IF Len(bytes) < 3 THEN BadLength
    ELSE LET attr_flags == At(bytes, 0)
             attr_type == At(bytes, 1)
             is_extended == HasBit(attr_flags, FLAG_EXT_LEN)
         IN  IF is_extended /\ Len(bytes) < 4 THEN BadLength
             ELSE LET attr_len == IF is_extended
                                  THEN At(bytes, 2) * 256 + At(bytes, 3)
                                  ELSE At(bytes, 2)
                      Fixed(n, v) == IF attr_len = n THEN Ok(v, bytes) ELSE Invalid
                  IN  CASE attr_type = 0 -> Invalid
                        [] attr_type = 1 -> Fixed(1, "Origin")
                        [] attr_type = 2 ->
                             IF fba THEN Ok("As4Path", bytes) ELSE Ok("AsPath", bytes)
                        [] attr_type = 4 -> Fixed(4, "MultiExitDisc")
                        [] attr_type = 5 -> Fixed(4, "LocalPreference")
                        [] attr_type = 6 -> Fixed(0, "AtomicAggregate")
                        [] attr_type = 7 ->
                             IF attr_len = 8 /\ fba THEN Ok("As4Aggregator", bytes)
                             ELSE IF attr_len = 6 /\ ~fba THEN Ok("Aggregator", bytes)
                             ELSE Invalid
                        [] attr_type = 9 -> Fixed(4, "OriginatorId")
                        [] attr_type = 14 ->
                             LET r == MpReachFromBytes(bytes)
                             IN  IF r.ok THEN Ok("MpReachNlri", bytes) ELSE r
                        [] attr_type = 15 -> MpUnreachFromBytes(bytes)
                        [] OTHER -> Ok(OpaqueAttrName(attr_type), bytes)

\* Attr::value of a decoded attribute
AttrValue(inner) ==
    IF HasBit(At(inner, 0), FLAG_EXT_LEN) THEN Drop(inner, 4) ELSE Drop(inner, 3)

----------------------------------------------------------------------------
(* The lazy sequences.  An iterator is a record of its residual bytes      *)
(* (inner), its error flag and its session context; a step returns the     *)
(* iterator after the call (it) and what the call yielded (y).  A yield    *)
(* records where an error came from: the step's own length checks          *)
(* ("step") or the decode of the element it cut out ("decode").            *)

Yield(t, v, b, w) ==
    [tag |-> t, variant |-> v, bytes |-> b, at |-> w, val |-> <<>>]
YNone == Yield("None", "", <<>>, "")
YOk(v, b) == Yield("Ok", v, b, "")
\* an element that also carries a decoded number (16-bit limbs, high first)
YOkVal(v, b, x) == [YOk(v, b) EXCEPT !.val = x]
YErr(e, w) == Yield(e.tag, "", <<>>, w)
YPanic == Yield("Panic", "", <<>>, "step")

\* Some(from_bytes(slice)): the element, or the decoder's error or panic
YDecoded(r, slice) ==
    IF r.ok THEN YOk(r.tag, slice)
    ELSE IF r = Panic THEN Yield("Panic", "", <<>>, "decode")
    ELSE YErr(r, "decode")

Step(s, y) == [it |-> s, y |-> y]
Stop(s) == Step(s, YNone)
Fail(s, e) == Step([s EXCEPT !.error = TRUE], YErr(e, "step"))
Advance(s, n) == [s EXCEPT !.inner = Drop(s.inner, n)]

\* the prefix is measured as floor(m/8) + 1 bytes
WithdrawnRoutesNext_FloorPlusOne(s) ==
    IF s.error THEN Stop(s)
    ELSE IF Len(s.inner) = 0 THEN Stop(s)
    ELSE IF Len(s.inner) < 1 THEN Fail(s, BadLength)
    ELSE LET mask_len == At(s.inner, 0)
             prefix_len == (mask_len + 8) \div 8
         IN  IF Len(s.inner) < prefix_len THEN Fail(s, BadLength)
             ELSE Step(Advance(s, prefix_len),
                       YOk("Prefix", Take(s.inner, prefix_len)))

\* message/update/withdrawn_routes.rs
WithdrawnRoutesNext(s) ==
    IF s.error THEN Stop(s)
    ELSE IF Len(s.inner) = 0 THEN Stop(s)
    ELSE IF Len(s.inner) < 1 THEN Fail(s, BadLength)
    ELSE LET mask_len == At(s.inner, 0)
             prefix_len == (mask_len + 15) \div 8
         IN  IF Len(s.inner) < prefix_len THEN Fail(s, BadLength)
             ELSE Step(Advance(s, prefix_len),
                       YOk("Prefix", Take(s.inner, prefix_len)))

\* the path id is never split off
NlriIterNext_NoPathId(s) ==
    IF s.error THEN Stop(s)
    ELSE IF Len(s.inner) = 0 THEN Stop(s)
    ELSE LET mask_len == At(s.inner, 0)
             byte_len == (mask_len + 15) \div 8
         IN  IF Len(s.inner) < byte_len THEN Fail(s, BadLength)
             ELSE Step(Advance(s, byte_len),
                       YOkVal("Nlri", Take(s.inner, byte_len), <<>>))

\* message/update/nlri.rs: with add_paths the 4-byte path id is split off
\* before the prefix is measured
NlriIterNext(s) ==
    IF s.error THEN Stop(s)
    ELSE IF Len(s.inner) = 0 THEN Stop(s)
    ELSE IF s.add_paths /\ Len(s.inner) < 5 THEN Fail(s, BadLength)
    ELSE LET s1 == IF s.add_paths THEN Advance(s, 4) ELSE s
             path == IF s.add_paths
                     THEN <<At(s.inner, 0) * 256 + At(s.inner, 1),
                            At(s.inner, 2) * 256 + At(s.inner, 3)>>
                     ELSE <<>>
             mask_len == At(s1.inner, 0)
             byte_len == (mask_len + 15) \div 8
         IN  IF Len(s1.inner) < byte_len THEN Fail(s1, BadLength)
             ELSE Step(Advance(s1, byte_len),
                       YOkVal("Nlri", Take(s1.inner, byte_len), path))

\* the residual is advanced by the value's length, the header forgotten
PathAttrIterNext_SkipsValueOnly(s) ==
    IF s.error \/ Len(s.inner) = 0 THEN Stop(s)
    ELSE IF Len(s.inner) < 2 THEN Fail(s, BadLength)
    ELSE LET attr_flags == At(s.inner, 0)
             is_extended == HasBit(attr_flags, FLAG_EXT_LEN)
             attr_value_offset == IF is_extended THEN 4 ELSE 3
         IN  IF Len(s.inner) < attr_value_offset THEN Step(s, YPanic)
             ELSE LET attr_len == IF is_extended
                                  THEN At(s.inner, 2) * 256 + At(s.inner, 3)
                                  ELSE At(s.inner, 2)
                      next_offset == attr_value_offset + attr_len
                      slice == Take(s.inner, next_offset)
                  IN  IF Len(s.inner) < attr_value_offset + attr_len
                      THEN Fail(s, BadLength)
                      ELSE Step(Advance(s, attr_len),
                                YDecoded(PathAttrFromBytes(slice, s.four_byte), slice))

\* bgp/update/path_attr/mod.rs: inner[2] (and inner[3]) are read after a
\* check for 2 bytes only; the decoder's error does not set the flag
PathAttrIterNext(s) ==
    IF s.error \/ Len(s.inner) = 0 THEN Stop(s)
    ELSE IF Len(s.inner) < 2 THEN Fail(s, BadLength)
    ELSE LET attr_flags == At(s.inner, 0)
             is_extended == HasBit(attr_flags, FLAG_EXT_LEN)
             attr_value_offset == IF is_extended THEN 4 ELSE 3
         IN  IF Len(s.inner) < attr_value_offset THEN Step(s, YPanic)
             ELSE LET attr_len == IF is_extended
                                  THEN At(s.inner, 2) * 256 + At(s.inner, 3)
                                  ELSE At(s.inner, 2)
                      next_offset == attr_value_offset + attr_len
                      slice == Take(s.inner, next_offset)
                  IN  IF Len(s.inner) < attr_value_offset + attr_len
                      THEN Fail(s, BadLength)
                      ELSE Step(Advance(s, next_offset),
                                YDecoded(PathAttrFromBytes(slice, s.four_byte), slice))

\* every ASN is taken to be 2 bytes wide
AsPathIterNext_TwoByteOnly(s) ==
    IF s.error \/ Len(s.inner) = 0 THEN Stop(s)
    ELSE LET as_size == 2
             segment_type == At(s.inner, 0)
         IN  IF segment_type \in {1, 2}
             THEN IF Len(s.inner) < 2 THEN Step(s, YPanic)
                  ELSE LET len == At(s.inner, 1)
                           end == len * as_size + 2
                       IN  IF end > Len(s.inner) THEN Step(s, YPanic)
                           ELSE Step(Advance(s, end),
                                     YOk(IF segment_type = 1 THEN "AsSet"
                                         ELSE "AsSequence",
                                         SubSeq(s.inner, 3, end)))
             ELSE Step([s EXCEPT !.error = TRUE], YErr(Invalid, "step"))

\* bgp/update/path_attr/mod.rs: the segment count and the segment's bytes
\* are read without a length check
AsPathIterNext(s) ==
    IF s.error \/ Len(s.inner) = 0 THEN Stop(s)
    ELSE LET as_size == IF s.four_byte THEN 4 ELSE 2
             segment_type == At(s.inner, 0)
         IN  IF segment_type \in {1, 2}
             THEN IF Len(s.inner) < 2 THEN Step(s, YPanic)
                  ELSE LET len == At(s.inner, 1)
                           end == len * as_size + 2
                       IN  IF end > Len(s.inner) THEN Step(s, YPanic)
                           ELSE Step(Advance(s, end),
                                     YOk(IF segment_type = 1 THEN "AsSet"
                                         ELSE "AsSequence",
                                         SubSeq(s.inner, 3, end)))
             ELSE Step([s EXCEPT !.error = TRUE], YErr(Invalid, "step"))

\* parameter type 1 is taken for the capability parameter
OpenParamsNext_CapabilityIsOne(s) ==
    IF s.error THEN Stop(s)
    ELSE IF Len(s.inner) = 0 THEN Stop(s)
    ELSE IF Len(s.inner) < 2 THEN Fail(s, BadLength)
    ELSE LET param_type == At(s.inner, 0)
             param_len == At(s.inner, 1)
             param_value == SubSeq(s.inner, 3, param_len + 2)
         IN  IF Len(s.inner) < param_len + 2 THEN Fail(s, BadLength)
             ELSE Step(Advance(s, param_len + 2),
                       IF param_type = 1 THEN YOk("Capability", param_value)
                       ELSE YOkVal("Unknown", param_value, <<param_type>>))

\* message/open/mod.rs
OpenParamsNext(s) ==
    IF s.error THEN Stop(s)
    ELSE IF Len(s.inner) = 0 THEN Stop(s)
    ELSE IF Len(s.inner) < 2 THEN Fail(s, BadLength)
    ELSE LET param_type == At(s.inner, 0)
             param_len == At(s.inner, 1)
             param_value == SubSeq(s.inner, 3, param_len + 2)
         IN  IF Len(s.inner) < param_len + 2 THEN Fail(s, BadLength)
             ELSE Step(Advance(s, param_len + 2),
                       IF param_type = 2 THEN YOk("Capability", param_value)
                       ELSE YOkVal("Unknown", param_value, <<param_type>>))

\* bgp/update/path_attr/mod.rs
ClusterListIterNext(s) ==
    IF s.error \/ Len(s.inner) = 0 THEN Stop(s)
    ELSE IF Len(s.inner) < 4 THEN Fail(s, BadLength)
    ELSE Step(Advance(s, 4), YOk("u32", Take(s.inner, 4)))

\* message/update/path_attr/mp_reach_nlri.rs: one macro body serves
\* Ipv4NlriIter and Ipv6NlriIter; assert!(mask_len <= 128)
MpNlriIterNext(s) ==
    IF s.error \/ Len(s.inner) = 0 THEN Stop(s)
    ELSE LET mask_len == At(s.inner, 0)
             byte_len == (mask_len + 15) \div 8
         IN  IF ~(mask_len <= 128) THEN Step(s, YPanic)
             ELSE IF Len(s.inner) < byte_len THEN Fail(s, BadLength)
             ELSE Step(Advance(s, byte_len), YOk("Nlri", Take(s.inner, byte_len)))

StatisticName(stat_type, stat_len) ==
    CASE stat_type = 0 /\ stat_len = 4 -> "RejectedPrefixCount"
      [] stat_type = 1 /\ stat_len = 4 -> "DuplicatePrefixAdvertisementCount"
      [] stat_type = 2 /\ stat_len = 4 -> "DuplicatePrefixWithdrawCount"
      [] stat_type = 3 /\ stat_len = 4 -> "ClusterListLoopInvalidationCount"
      [] stat_type = 4 /\ stat_len = 4 -> "AsPathLoopInvalidationCount"
      [] stat_type = 5 /\ stat_len = 4 -> "OriginatorIdInvalidationCount"
      [] stat_type = 6 /\ stat_len = 4 -> "AsConfedInvalidationCount"
      [] stat_type = 7 /\ stat_len = 8 -> "AdjRibsInSize"
      [] stat_type = 8 /\ stat_len = 8 -> "LocRibSize"
      [] stat_type = 9 /\ stat_len = 11 -> "PerAfiSafiAdjRibInSize"
      [] stat_type = 10 /\ stat_len = 11 -> "PerAfiSafiLocRibSize"
      [] stat_type = 11 /\ stat_len = 4 -> "UpdatesTreatedAsWithdraws"
      [] stat_type = 12 /\ stat_len = 4 -> "PrefixesTreatedAsWithdraws"
      [] stat_type = 13 /\ stat_len = 4 -> "DuplicateUpdateCount"
      [] OTHER -> "Unknown"

\* a big-endian number of 2n bytes as n 16-bit limbs, high limb first
Limbs(b) == [k \in 1..(Len(b) \div 2) |-> b[2 * k - 1] * 256 + b[2 * k]]

\* what the variant carries: a u32, a u64, or Afi, Safi and a u64
StatisticValue(stat_type, stat_len, slice) ==
    CASE StatisticName(stat_type, stat_len) = "Unknown" -> <<>>
      [] stat_type \in {9, 10} ->
             <<At(slice, 0) * 256 + At(slice, 1), At(slice, 2)>>
                 \o Limbs(Drop(slice, 3))
      [] OTHER -> Limbs(slice)

\* the variant is chosen by the type alone, whatever the length
StatisticsIterNext_AnyLength(s) ==
    IF Len(s.inner) = 0 \/ s.error THEN Stop(s)
    ELSE IF Len(s.inner) < 2 THEN Fail(s, BadLength)
    ELSE IF Len(s.inner) < 4 THEN Step(s, YPanic)
    ELSE LET stat_type == At(s.inner, 0) * 256 + At(s.inner, 1)
             stat_len == At(s.inner, 2) * 256 + At(s.inner, 3)
             slice == SubSeq(s.inner, 5, stat_len + 4)
             typed_len == CASE stat_type \in 0..6 \cup 11..13 -> 4
                            [] stat_type \in 7..8 -> 8
                            [] stat_type \in 9..10 -> 11
                            [] OTHER -> 0
         IN  IF Len(s.inner) < stat_len + 4 THEN Fail(s, BadLength)
             ELSE Step(Advance(s, stat_len + 4),
                       YOkVal(StatisticName(stat_type, typed_len),
                              slice,
                              StatisticValue(stat_type, stat_len, slice)))

\* bmp/mod.rs: inner[2] and inner[3] are read after a check for 2 bytes
StatisticsIterNext(s) ==
    IF Len(s.inner) = 0 \/ s.error THEN Stop(s)
    ELSE IF Len(s.inner) < 2 THEN Fail(s, BadLength)
    ELSE IF Len(s.inner) < 4 THEN Step(s, YPanic)
    ELSE LET stat_type == At(s.inner, 0) * 256 + At(s.inner, 1)
             stat_len == At(s.inner, 2) * 256 + At(s.inner, 3)
             slice == SubSeq(s.inner, 5, stat_len + 4)
         IN  IF Len(s.inner) < stat_len + 4 THEN Fail(s, BadLength)
             ELSE Step(Advance(s, stat_len + 4),
                       YOkVal(StatisticName(stat_type, stat_len), slice,
                              StatisticValue(stat_type, stat_len, slice)))

Cont(b) == b \in 128..191

\* str::from_utf8(slice).is_ok()
RECURSIVE Utf8Valid(_)
Utf8Valid(b) ==
    IF Len(b) = 0 THEN TRUE
    ELSE LET c == b[1]
             need == CASE c < 128 -> 1
                       [] c \in 194..223 -> 2
                       [] c \in 224..239 -> 3
                       [] c \in 240..244 -> 4
                       [] OTHER -> 0
         IN  /\ need > 0
             /\ Len(b) >= need
             /\ \A i \in 2..need : Cont(b[i])
             /\ (c = 224 => b[2] >= 160)
             /\ (c = 237 => b[2] <= 159)
             /\ (c = 240 => b[2] >= 144)
             /\ (c = 244 => b[2] <= 143)
             /\ Utf8Valid(Drop(b, need))

\* bmp/mod.rs: the bound checked is msg_len, the slice taken is
\* [4..msg_len + 4]; text that is not UTF-8 is Invalid for every type
RouterInfoIterNext(s) ==
    IF Len(s.inner) = 0 \/ s.error THEN Stop(s)
    ELSE IF Len(s.inner) < 4 THEN Fail(s, BadLength)
    ELSE LET msg_type == At(s.inner, 0) * 256 + At(s.inner, 1)
             msg_len == At(s.inner, 2) * 256 + At(s.inner, 3)
             slice == SubSeq(s.inner, 5, msg_len + 4)
         IN  IF Len(s.inner) < msg_len THEN Fail(s, BadLength)
             ELSE IF msg_len + 4 > Len(s.inner) THEN Step(s, YPanic)
             ELSE IF ~Utf8Valid(slice)
                  THEN Step([Advance(s, msg_len + 4) EXCEPT !.error = TRUE],
                            YErr(Invalid, "step"))
             ELSE Step(Advance(s, msg_len + 4),
                       YOk(CASE msg_type = 0 -> "String"
                             [] msg_type = 1 -> "SysDescr"
                             [] msg_type = 2 -> "SysName"
                             [] OTHER -> "Other",
                           slice))

\* the whole residual is handed to the decoder, whatever length is declared
MessageIterNext_WholeResidual(s) ==
    IF Len(s.inner) = 0 \/ s.error THEN Stop(s)
    ELSE IF Len(s.inner) < 19 THEN Fail(s, BadLength)
    ELSE LET message_len == At(s.inner, 16) * 256 + At(s.inner, 17)
             slice == s.inner
         IN  IF Len(s.inner) < message_len THEN Fail(s, BadLength)
             ELSE Step(Advance(s, Len(s.inner)),
                       YDecoded(MessageFromBytes(slice, s.four_byte, s.add_paths),
                                slice))

\* bmp/mod.rs: the embedded message is cut out by its length field and
\* decoded; the decoder's error does not set the flag
MessageIterNext(s) ==
    IF Len(s.inner) = 0 \/ s.error THEN Stop(s)
    ELSE IF Len(s.inner) < 19 THEN Fail(s, BadLength)
    ELSE LET message_len == At(s.inner, 16) * 256 + At(s.inner, 17)
             slice == Take(s.inner, message_len)
         IN  IF Len(s.inner) < message_len THEN Fail(s, BadLength)
             ELSE Step(Advance(s, message_len),
                       YDecoded(MessageFromBytes(slice, s.four_byte, s.add_paths),
                                slice))

----------------------------------------------------------------------------
(* The iteration harness: one freshly constructed iterator over an         *)
(* enclosing slice (encl); the caller calls next() up to MaxSteps times    *)
(* and keeps what each call yielded (hist).                                *)

\* calls to next() on one iterator
MaxSteps == 7

\* longest exhaustively enumerated enclosing slice
MaxInner == 4

Iter(kind, inner, fb, ap) ==
    [kind |-> kind, inner |-> inner, error |-> FALSE,
     four_byte |-> fb, add_paths |-> ap]

\* whole attributes: Origin, reserved code 0, MP_REACH with an empty value,
\* Origin with extended length, AS_PATH with one sequence, unknown code 99
AttrChunks ==
    { <<64, 1, 1, 0>>, <<64, 0, 0>>, <<64, 14, 0>>, <<80, 1, 0, 1, 2>>,
      <<64, 2, 4, 2, 1, 0, 1>>, <<64, 99, 0>> }

AttrTails == { <<>>, <<64>>, <<64, 1>>, <<80, 1, 0>>, <<64, 1, 1>> }

\* Communities, ClusterList and ExtendedCommunities with a zero value of
\* 0..9 bytes, the length in one byte or in two
CommunityChunks ==
    { <<64, t, n>> \o Pad(n) : t \in {8, 10, 16}, n \in 0..9 }
      \cup { <<80, t, 0, n>> \o Pad(n) : t \in {8, 10, 16}, n \in 0..9 }

PathAttrInputs ==
    Slices({0, 1, 14, 64, 80}, MaxInner)
      \cup { a \o b \o t : a \in AttrChunks, b \in AttrChunks, t \in AttrTails }
      \cup { a \o b : a \in CommunityChunks, b \in { <<>>, <<64, 1, 1, 0>> } }

\* whole statistics: a 4-byte counter, an 8-byte gauge, an unknown type
StatChunks ==
    { <<0, 0, 0, 4, 0, 0, 0, 1>>, <<0, 7, 0, 8, 0, 0, 0, 0, 0, 0, 0, 1>>,
      <<0, 99, 0, 0>> }

\* one statistic of each type 0..14 and 99 under each of the lengths 0, 4,
\* 8 and 11, its value bytes counting up from 1; and type 256 + 0
StatTlvs ==
    { <<0, t, 0, n>> \o [i \in 1..n |-> i] :
        t \in 0..14 \cup {99}, n \in {0, 4, 8, 11} }
      \cup { <<1, 0, 0, 4, 1, 2, 3, 4>> }

StatisticsInputs ==
    Slices({0, 1, 4}, MaxInner + 1)
      \cup { a \o b \o t : a \in StatChunks, b \in StatChunks,
                           t \in { <<>>, <<0>>, <<0, 0>>, <<0, 0, 0>> } }
      \cup { a \o b : a \in StatTlvs,
                       b \in { <<>>, <<0, 12, 0, 4, 1, 0, 0, 9>>, <<0, 99, 0, 0>> } }

\* embedded messages: KEEPALIVE, declared length 0, declared length 5,
\* unknown type, broken marker, declared one byte longer than present,
\* a minimal UPDATE
EmbeddedChunks ==
    { <<>>,
      VALID_BGP_MARKER \o <<0, 19, 4>>,
      VALID_BGP_MARKER \o <<0, 0, 4>>,
      VALID_BGP_MARKER \o <<0, 5, 4>>,
      VALID_BGP_MARKER \o <<0, 19, 9>>,
      [VALID_BGP_MARKER EXCEPT ![1] = 0] \o <<0, 19, 4>>,
      VALID_BGP_MARKER \o <<0, 20, 4>>,
      VALID_BGP_MARKER \o <<0, 23, 2, 0, 0, 0, 0>> }

MessageInputs ==
    { a \o b \o t : a \in EmbeddedChunks, b \in EmbeddedChunks,
                    t \in { <<>>, <<255>> } }

\* whole information TLVs: "e-acute" as String, "A" as SysDescr, an empty
\* SysName, a lone continuation byte under an unknown type, a lead byte
\* without its continuation
InfoChunks ==
    { <<0, 0, 0, 2, 195, 169>>, <<0, 1, 0, 1, 65>>, <<0, 2, 0, 0>>,
      <<0, 9, 0, 1, 128>>, <<0, 0, 0, 2, 195, 65>> }

RouterInfoInputs ==
    Slices({0, 1, 65, 128}, MaxInner + 1)
      \cup { a \o b \o t : a \in InfoChunks, b \in InfoChunks,
                           t \in { <<>>, <<0>>, <<0, 0, 0, 1>> } }

\* the AS path of the repository's test, the same with 4-byte ASNs, and a
\* sequence followed by a segment of unknown type 3 and a set
AsPathVectors ==
    { <<2, 1, 0, 30, 1, 2, 0, 10, 0, 20>>,
      <<2, 1, 0, 0, 0, 30, 1, 2, 0, 1, 0, 10, 0, 0, 0, 20>>,
      <<2, 1, 0, 30, 3, 1, 0, 10, 1, 1, 0, 20>> }

\* one prefix of every mask length 0..255, whole and one byte short
MaskInputs ==
    UNION { { <<m>> \o Pad((m + 7) \div 8), <<m>> \o Pad((m + 7) \div 8 - 1) } :
              m \in 0..255 }

\* the optional parameters of the repository's OPEN test (six capability
\* parameters), the same cut one byte short, and an unknown parameter
\* between two capabilities
OpenParamVectors ==
    LET parse_open == <<2, 6, 1, 4, 0, 1, 0, 1, 2, 2, 128, 0, 2, 2, 2, 0,
                        2, 2, 70, 0, 2, 6, 69, 4, 0, 1, 1, 3,
                        2, 6, 65, 4, 0, 0, 252, 0>>
    IN  { parse_open, Take(parse_open, 35),
          <<2, 2, 2, 0, 9, 1, 7, 2, 2, 70, 0>> }

IterInputs ==
    { Iter("WithdrawnRoutes", b, FALSE, FALSE) :
        b \in Slices({0, 1, 9, 32}, MaxInner) \cup MaskInputs }
    \cup { Iter("NlriIter", b, FALSE, ap) :
        b \in Slices({0, 8, 24}, MaxInner + 2) \cup MaskInputs, ap \in BOOLEAN }
    \cup { Iter("PathAttrIter", b, fb, FALSE) :
        b \in PathAttrInputs, fb \in BOOLEAN }
    \cup { Iter("AsPathIter", b, fb, FALSE) :
        b \in Slices({0, 1, 2}, MaxInner + 2) \cup AsPathVectors,
        fb \in BOOLEAN }
    \cup { Iter("OpenParams", b, FALSE, FALSE) :
        b \in Slices({0, 1, 2}, MaxInner + 1) \cup OpenParamVectors }
    \cup { Iter("ClusterListIter", b, FALSE, FALSE) :
        b \in Slices({0, 1}, MaxInner + 2) }
    \cup { Iter(k, b, FALSE, FALSE) :
        k \in {"Ipv4NlriIter", "Ipv6NlriIter"},
        b \in Slices({0, 8, 128, 129}, MaxInner) \cup MaskInputs
                \cup { <<22, 193, 43, 128, 19, 212, 77, 0>> } }
    \cup { Iter("StatisticsIter", b, FALSE, FALSE) : b \in StatisticsInputs }
    \cup { Iter("RouterInfoIter", b, FALSE, FALSE) :
        b \in RouterInfoInputs }
    \cup { Iter("MessageIter", b, fb, ap) :
        b \in MessageInputs, fb \in BOOLEAN, ap \in BOOLEAN }

InitIter ==
    /\ it \in IterInputs
    /\ encl = it.inner
    /\ hist = <<>>
    /\ pc = "iterating"
    /\ proto = "bgp"
    /\ raw = <<>>
    /\ four_byte_asn = it.four_byte
    /\ add_path = it.add_paths
    /\ result = NoResult
    /\ acc = NoResult

\* one call to next(): the iterator is replaced by its state after the call
\* and the yield is appended; a panic ends the iteration
Yielded(r) ==
    /\ pc = "iterating"
    /\ Len(hist) < MaxSteps
    /\ it' = r.it
    /\ hist' = Append(hist, r.y)
    /\ pc' = IF r.y.tag = "Panic" THEN "panicked" ELSE pc
    /\ UNCHANGED <<raw, four_byte_asn, add_path, proto, result, acc, encl>>

NextWithdrawnRoutes == it.kind = "WithdrawnRoutes" /\ Yielded(WithdrawnRoutesNext(it))
NextNlri == it.kind = "NlriIter" /\ Yielded(NlriIterNext(it))
NextPathAttr == it.kind = "PathAttrIter" /\ Yielded(PathAttrIterNext(it))
NextAsPath == it.kind = "AsPathIter" /\ Yielded(AsPathIterNext(it))
NextOpenParam == it.kind = "OpenParams" /\ Yielded(OpenParamsNext(it))
NextClusterList == it.kind = "ClusterListIter" /\ Yielded(ClusterListIterNext(it))
NextMpNlri ==
    /\ it.kind \in {"Ipv4NlriIter", "Ipv6NlriIter"}
    /\ Yielded(MpNlriIterNext(it))
NextStatistic == it.kind = "StatisticsIter" /\ Yielded(StatisticsIterNext(it))
NextRouterInfo == it.kind = "RouterInfoIter" /\ Yielded(RouterInfoIterNext(it))
NextMessage == it.kind = "MessageIter" /\ Yielded(MessageIterNext(it))

NextIter ==
    \/ NextWithdrawnRoutes \/ NextNlri \/ NextPathAttr \/ NextAsPath
    \/ NextOpenParam \/ NextClusterList \/ NextMpNlri \/ NextStatistic
    \/ NextRouterInfo \/ NextMessage

SpecIter == InitIter /\ [][NextIter]_vars

----------------------------------------------------------------------------
(* Claims about the lazy sequences, checked under SpecIter.                *)

Iterating == pc \in {"iterating", "panicked"}

IsError(y) == y.tag \in {"BadLength", "Invalid"}

\* every yield after the i-th is end-of-sequence
FinalYield(i) == \A j \in (i + 1)..Len(hist) : hist[j].tag = "None"

\* C5: in every lazy sequence that checks for truncation, a BadLength is
\* delivered once: the sticky flag is set by the step that yields it and
\* every later next() returns end-of-sequence.
C5_BadLengthIsFinal ==
    (Iterating /\ it.kind # "AsPathIter") =>
        \A i \in 1..Len(hist) :
            hist[i].tag = "BadLength" =>
                /\ FinalYield(i)
                /\ (i = Len(hist) => it.error)

\* C6: in the path-attribute and the embedded-message sequences an error
\* returned by the decode of an element is the final yield: every later
\* next() returns end-of-sequence.
C6_DecodeErrorIsFinal ==
    (Iterating /\ it.kind \in {"PathAttrIter", "MessageIter"}) =>
        \A i \in 1..Len(hist) :
            (IsError(hist[i]) /\ hist[i].at = "decode") => FinalYield(i)

\* C7: no step of the path-attribute, AS-path-segment, BMP-statistics and
\* BMP-information-TLV iterators panics: each yields an element, an error
\* or end-of-sequence, whatever the bytes and the length of the slice.
C7_NoPanic ==
    it.kind \in {"PathAttrIter", "AsPathIter", "StatisticsIter", "RouterInfoIter"}
        => /\ pc # "panicked"
           /\ \A i \in 1..Len(hist) : hist[i].tag # "Panic"

RECURSIVE YieldedBytes(_)
\* total byte length of the elements yielded so far
YieldedBytes(h) ==
    IF h = <<>> THEN 0 ELSE Len(h[1].bytes) + YieldedBytes(Tail(h))

NoErrorYielded == \A i \in 1..Len(hist) : hist[i].tag \in {"Ok", "None"}

\* C8: for a path-attribute and for a withdrawn-routes sequence that has
\* yielded no error, the bytes of the elements yielded so far plus the
\* residual bytes equal the enclosing length at every step; once
\* end-of-sequence is returned the elements' bytes sum to the enclosing
\* length; an enclosing length of zero gives an empty sequence.
C8_ElementLengthsSum ==
    ( /\ Iterating
      /\ it.kind \in {"PathAttrIter", "WithdrawnRoutes"}
      /\ NoErrorYielded ) =>
        /\ YieldedBytes(hist) + Len(it.inner) = Len(encl)
        /\ (hist # <<>> /\ hist[Len(hist)].tag = "None")
              => YieldedBytes(hist) = Len(encl)
        /\ (encl = <<>> /\ hist # <<>>) => hist[1].tag = "None"

\* two attributes of 4 and 3 bytes were yielded from 7 enclosing bytes, and
\* then end-of-sequence
C8_Witness ==
    /\ Iterating /\ it.kind = "PathAttrIter"
    /\ Len(hist) = 3
    /\ hist[1].tag = "Ok" /\ Len(hist[1].bytes) = 4
    /\ hist[2].tag = "Ok" /\ Len(hist[2].bytes) = 3
    /\ hist[3].tag = "None"
    /\ Len(encl) = 7

----------------------------------------------------------------------------
(* The attribute harness: one attribute is decoded under a session flag;   *)
(* when it is an AS path the caller iterates its segments.                 *)

\* longest run of bytes after the flags and the type code
MaxAttrTail == 5

AttrTypes == {0, 1, 2, 3, 4, 5, 6, 7, 9, 14, 15, 17, 99}

AttrBuffers ==
    { <<f, t>> \o tail :
        f \in {64, 80}, t \in AttrTypes, tail \in Slices({0, 1, 2, 4}, MaxAttrTail) }

\* every type code the decoder names, and some it does not
AttrCodes == 0..30 \cup {99, 128, 255}

\* whole attributes of every code with a zero value of 0..9 bytes, the
\* length in one byte or, under ExtendedLength, in two (256 + n included)
AttrVectors ==
    { <<f, t, n>> \o Pad(n) : f \in {64, 192}, t \in AttrCodes, n \in 0..9 }
      \cup { <<f, t, h, n>> \o Pad(n) :
                f \in {80, 208}, t \in AttrCodes, h \in {0, 1}, n \in 0..9 }

InitAttr ==
    /\ raw \in AttrBuffers \cup AttrVectors
    /\ four_byte_asn \in BOOLEAN
    /\ add_path = FALSE
    /\ proto = "bgp"
    /\ pc = "start"
    /\ result = NoResult
    /\ acc = NoResult
    /\ it = Idle
    /\ encl = <<>>
    /\ hist = <<>>

DecodeAttr ==
    /\ pc = "start"
    /\ result' = PathAttrFromBytes(raw, four_byte_asn)
    /\ pc' = "decoded"
    /\ UNCHANGED <<raw, four_byte_asn, add_path, proto, acc, it, encl, hist>>

\* AsPath::segments / As4Path::segments
Segments(attr) ==
    Iter("AsPathIter", AttrValue(attr.inner), attr.tag = "As4Path", FALSE)

CallSegments ==
    /\ pc = "decoded"
    /\ result.ok /\ result.tag \in {"AsPath", "As4Path"}
    /\ it' = Segments(result)
    /\ encl' = AttrValue(result.inner)
    /\ pc' = "iterating"
    /\ UNCHANGED <<raw, four_byte_asn, add_path, proto, result, acc, hist>>

NextAttr == DecodeAttr \/ CallSegments \/ NextAsPath

SpecAttr == InitAttr /\ [][NextAttr]_vars

\* the attribute has its flags, type code and length field
HeaderComplete(b) ==
    /\ Len(b) >= 3
    /\ HasBit(At(b, 0), FLAG_EXT_LEN) => Len(b) >= 4

\* C10: an attribute with type code 2 decodes, whatever its declared length,
\* to As4Path when four_byte_asn is set and to AsPath otherwise, and one
\* with type code 17 to As4Path whatever the flag; the segments of an
\* As4Path are cut with 4-byte ASNs and those of an AsPath with 2-byte ASNs.
C10_AsPathByFlag ==
    (pc # "start" /\ HeaderComplete(raw)) =>
        /\ At(raw, 1) = 2 =>
              result = Ok(IF four_byte_asn THEN "As4Path" ELSE "AsPath", raw)
        /\ At(raw, 1) = 17 => result = Ok("As4Path", raw)
        /\ pc \in {"iterating", "panicked"} =>
              /\ it.four_byte = (At(raw, 1) = 17 \/ four_byte_asn)
              /\ (hist # <<>> /\ hist[1].tag = "Ok") =>
                    Len(hist[1].bytes)
                      = At(encl, 1) * (IF it.four_byte THEN 4 ELSE 2)

\* with the flag clear, code 2 gave an AsPath whose first segment holds one
\* 2-byte ASN
C10_Witness ==
    /\ pc = "iterating" /\ ~four_byte_asn
    /\ raw = <<64, 2, 4, 2, 1, 0, 1>>
    /\ result.tag = "AsPath"
    /\ hist # <<>> /\ hist[1].tag = "Ok" /\ hist[1].bytes = <<0, 1>>

\* attr_len as PathAttr::from_bytes reads it from a complete header
DeclaredLen(b) ==
    IF HasBit(At(b, 0), FLAG_EXT_LEN) THEN At(b, 2) * 256 + At(b, 3)
    ELSE At(b, 2)

\* C11: PathAttr::from_bytes returns Invalid for type code 0, for Origin (1)
\* with declared length other than 1, for MultiExitDisc (4), LocalPreference
\* (5) and OriginatorId (9) with declared length other than 4 and for
\* AtomicAggregate (6) with declared length other than 0, and the named
\* variant with the matching length, for both values of four_byte_asn and
\* for the one-byte and the two-byte (ExtendedLength) length field.
C11_FixedLengthPolicy ==
    (pc # "start" /\ HeaderComplete(raw)) =>
        LET ty == At(raw, 1)
            len == DeclaredLen(raw)
            Fixed(n, v) == result = IF len = n THEN Ok(v, raw) ELSE Invalid
        IN  /\ ty = 0 => result = Invalid
            /\ ty = 1 => Fixed(1, "Origin")
            /\ ty = 4 => Fixed(4, "MultiExitDisc")
            /\ ty = 5 => Fixed(4, "LocalPreference")
            /\ ty = 9 => Fixed(4, "OriginatorId")
            /\ ty = 6 => Fixed(0, "AtomicAggregate")

\* a LocalPreference whose length 4 is encoded in two bytes was decoded
\* under four_byte_asn
C11_Witness ==
    /\ pc = "decoded" /\ four_byte_asn
    /\ raw = <<80, 5, 0, 4>>
    /\ result = Ok("LocalPreference", raw)

----------------------------------------------------------------------------
(* bgp/update/path_attr/mod.rs, impl_as_path_segment!: the ASNs of one     *)
(* segment.  A u32 is kept as two 16-bit limbs <<high, low>>.              *)

\* one call of $iter::next on residual b: None on an empty residual
AsnIterNext(b, four_byte) ==
    IF Len(b) = 0 THEN [some |-> FALSE, asn |-> <<0, 0>>, rest |-> b]
    ELSE [some |-> TRUE,
          asn |-> IF four_byte
                  THEN <<At(b, 0) * 256 + At(b, 1), At(b, 2) * 256 + At(b, 3)>>
                  ELSE <<0, At(b, 0) * 256 + At(b, 1)>>,
          rest |-> Drop(b, IF four_byte THEN 4 ELSE 2)]

RECURSIVE AsnsCollected(_, _)
\* the values next() returns until None
AsnsCollected(b, four_byte) ==
    LET r == AsnIterNext(b, four_byte)
    IN  IF r.some THEN <<r.asn>> \o AsnsCollected(r.rest, four_byte) ELSE <<>>

\* $coll::aut_nums followed by collecting the iterator
AutNums(inner, four_byte) ==
    IF Len(inner) % (IF four_byte THEN 4 ELSE 2) > 0 THEN BadLength
    ELSE Ok("AutNums", AsnsCollected(inner, four_byte))

----------------------------------------------------------------------------
(* Claims about AS-path segments, checked under SpecIter.                  *)

RECURSIVE SegmentOffset(_)
\* where in encl the i-th call started, its predecessors having yielded
\* segments: each took its 2-byte header and its ASNs
SegmentOffset(i) ==
    IF i = 1 THEN 0 ELSE SegmentOffset(i - 1) + 2 + Len(hist[i - 1].bytes)

AllOkBefore(i) == \A j \in 1..(i - 1) : hist[j].tag = "Ok"

\* C12: segment iteration yields, in wire order, AsSet for segment type 1
\* and AsSequence for type 2, each carrying exactly count ASNs taken from
\* count x asnSize bytes, asnSize (2 or 4) being the iterator's for all
\* segments and a 2-byte ASN giving a value below 65536; any other segment
\* type yields Invalid, after which every step returns end-of-sequence.
C12_SegmentsInWireOrder ==
    (Iterating /\ it.kind = "AsPathIter") =>
        \A i \in 1..Len(hist) :
            LET y == hist[i]
                off == SegmentOffset(i)
                size == IF it.four_byte THEN 4 ELSE 2
            IN  /\ (y.tag = "Ok" /\ AllOkBefore(i)) =>
                      LET count == At(encl, off + 1)
                          asns == AutNums(y.bytes, it.four_byte)
                      IN  /\ At(encl, off) \in {1, 2}
                          /\ y.variant = IF At(encl, off) = 1 THEN "AsSet"
                                         ELSE "AsSequence"
                          /\ off + 2 + count * size <= Len(encl)
                          /\ y.bytes = SubSeq(encl, off + 3, off + 2 + count * size)
                          /\ asns.ok /\ Len(asns.inner) = count
                          /\ \A k \in 1..count :
                               LET at == off + 2 + (k - 1) * size
                               IN  asns.inner[k] =
                                     IF it.four_byte
                                     THEN <<At(encl, at) * 256 + At(encl, at + 1),
                                            At(encl, at + 2) * 256 + At(encl, at + 3)>>
                                     ELSE <<0, At(encl, at) * 256 + At(encl, at + 1)>>
                /\ (AllOkBefore(i) /\ off < Len(encl) /\ At(encl, off) \notin {1, 2})
                      => y.tag = "Invalid"
                /\ y.tag = "Invalid" =>
                      /\ FinalYield(i)
                      /\ At(encl, off) \notin {1, 2}

\* the attribute of the repository's test: an AS_SEQUENCE of 30, an AS_SET
\* of 10 and 20, then end-of-sequence
C12_Witness ==
    /\ Iterating /\ it.kind = "AsPathIter" /\ ~it.four_byte
    /\ encl = <<2, 1, 0, 30, 1, 2, 0, 10, 0, 20>>
    /\ Len(hist) = 3
    /\ hist[1].variant = "AsSequence" /\ hist[1].bytes = <<0, 30>>
    /\ hist[2].variant = "AsSet" /\ hist[2].bytes = <<0, 10, 0, 20>>
    /\ AutNums(hist[2].bytes, FALSE).inner = << <<0, 10>>, <<0, 20>> >>
    /\ hist[3].tag = "None"

----------------------------------------------------------------------------
(* Claims about NLRIs and prefixes, checked under SpecIter.                *)

\* bytes one element takes on the wire: its prefix and, with add_paths, its
\* 4-byte path id
NlriWireLen(y) == Len(y.bytes) + (IF it.add_paths THEN 4 ELSE 0)

RECURSIVE NlriOffset(_)
\* where in encl the i-th call started, its predecessors having yielded
NlriOffset(i) ==
    IF i = 1 THEN 0 ELSE NlriOffset(i - 1) + NlriWireLen(hist[i - 1])

\* C13: an NLRI element has a path id if and only if add_path is set: with
\* add_path a step takes a 4-byte big-endian path id and then one prefix,
\* without it the prefix only; elements come in wire order; a residual too
\* short for path id plus mask byte, or for the prefix bytes, yields
\* BadLength.
C13_PathIdIffAddPath ==
    (Iterating /\ it.kind = "NlriIter") =>
        \A i \in 1..Len(hist) :
            AllOkBefore(i) =>
                LET y == hist[i]
                    off == NlriOffset(i)
                    r == Drop(encl, off)
                    p == IF it.add_paths THEN 4 ELSE 0
                    need == p + ((At(r, p) + 15) \div 8)
                IN  IF Len(r) = 0 THEN y.tag = "None"
                    ELSE IF Len(r) < p + 1 THEN y.tag = "BadLength"
                    ELSE IF Len(r) < need THEN y.tag = "BadLength"
                    ELSE /\ y.tag = "Ok"
                         /\ y.bytes = SubSeq(r, p + 1, need)
                         /\ (y.val # <<>>) = it.add_paths
                         /\ it.add_paths =>
                               y.val = <<At(r, 0) * 256 + At(r, 1),
                                         At(r, 2) * 256 + At(r, 3)>>

\* with add_path, path id 0x00080018 and the prefix 8/24.. were yielded,
\* then end-of-sequence
C13_Witness ==
    /\ Iterating /\ it.kind = "NlriIter" /\ it.add_paths
    /\ encl = <<0, 8, 0, 24, 8, 24>>
    /\ Len(hist) = 2
    /\ hist[1].tag = "Ok" /\ hist[1].val = <<8, 24>> /\ hist[1].bytes = <<8, 24>>
    /\ hist[2].tag = "None"

Ceil8(m) == (m + 7) \div 8

\* C14: every Prefix yielded by withdrawn-routes and NLRI iteration is its
\* mask-length byte m followed by exactly ceil(m/8) prefix bytes, for every
\* m in 0..255; when fewer bytes remain the step yields BadLength instead
\* of a shorter prefix.
C14_PrefixLength ==
    (Iterating /\ it.kind \in {"WithdrawnRoutes", "NlriIter"}) =>
        \A i \in 1..Len(hist) :
            LET y == hist[i]
                r == Drop(encl, NlriOffset(i))
                p == IF it.add_paths THEN 4 ELSE 0
            IN  /\ y.tag = "Ok" =>
                      /\ Len(y.bytes) = 1 + Ceil8(y.bytes[1])
                      /\ y.bytes[1] \in 0..255
                /\ ( /\ AllOkBefore(i)
                     /\ Len(r) >= p + 1
                     /\ Len(r) < p + 1 + Ceil8(At(r, p)) ) => y.tag = "BadLength"

\* mask length 255 was yielded with its 32 prefix bytes
C14_Witness ==
    /\ Iterating /\ it.kind = "WithdrawnRoutes"
    /\ Len(hist) = 2
    /\ hist[1].tag = "Ok" /\ hist[1].bytes[1] = 255 /\ Len(hist[1].bytes) = 33
    /\ hist[2].tag = "None"

----------------------------------------------------------------------------
(* bgp/open/capability/mod.rs: the capability decoder.                     *)

CapabilityName(capability_type) ==
    CASE capability_type = 1 -> "MultiProtocol"
      [] capability_type = 2 -> "RouteRefresh"
      [] capability_type = 3 -> "Orf"
      [] capability_type = 4 -> "MultipleRoutes"
      [] capability_type = 5 -> "ExtendedNextHopEncoding"
      [] capability_type = 64 -> "GracefulRestart"
      [] capability_type = 65 -> "FourByteASN"
      [] capability_type = 67 -> "DynamicCapability"
      [] capability_type = 68 -> "MultiSession"
      [] capability_type = 69 -> "AddPath"
      [] capability_type = 70 -> "EnhancedRouteRefresh"
      [] capability_type \in 128..255 -> "Private"
      [] OTHER -> "Other"

\* trailing bytes after the declared value are accepted
CapabilityFromBytes_AtLeast(bytes) ==
    IF Len(bytes) < 2 THEN BadLength
    ELSE LET capability_type == At(bytes, 0)
             capability_len == At(bytes, 1)
         IN  IF Len(bytes) < capability_len + 2 THEN BadLength
             ELSE IF capability_type = 0 THEN Invalid
             ELSE IF capability_type \in {1, 65, 69} /\ capability_len # 4
                  THEN Invalid
             ELSE Ok(CapabilityName(capability_type), bytes)

CapabilityFromBytes(bytes) ==
    IF Len(bytes) < 2 THEN BadLength
    ELSE LET capability_type == At(bytes, 0)
             capability_len == At(bytes, 1)
         IN  IF Len(bytes) # capability_len + 2 THEN BadLength
             ELSE IF capability_type = 0 THEN Invalid
             ELSE IF capability_type \in {1, 65, 69} /\ capability_len # 4
                  THEN Invalid
             ELSE Ok(CapabilityName(capability_type), bytes)

----------------------------------------------------------------------------
(* The capability harness: one buffer is decoded.                          *)

\* longest capability value
MaxCapValue == 5

CapabilityBuffers ==
    { <<>> } \cup { <<c>> : c \in {0, 1, 2, 255} }
      \cup { <<c, l>> \o Pad(n) :
               c \in 0..255, l \in {0, 1, 3, 4, 5}, n \in 0..MaxCapValue }

InitCap ==
    /\ raw \in CapabilityBuffers
    /\ proto = "bgp"
    /\ four_byte_asn = FALSE
    /\ add_path = FALSE
    /\ pc = "start"
    /\ result = NoResult
    /\ acc = NoResult
    /\ it = Idle
    /\ encl = <<>>
    /\ hist = <<>>

DecodeCapability ==
    /\ pc = "start"
    /\ result' = CapabilityFromBytes(raw)
    /\ pc' = "decoded"
    /\ UNCHANGED <<raw, four_byte_asn, add_path, proto, acc, it, encl, hist>>

NextCap == DecodeCapability

SpecCap == InitCap /\ [][NextCap]_vars

\* C15: Capability::from_bytes returns BadLength for fewer than 2 bytes or
\* a size other than the length byte + 2; otherwise Invalid for code 0 and
\* for codes 1, 65 and 69 with a length byte other than 4; otherwise the
\* variant of the code: 1 MultiProtocol, 2 RouteRefresh, 3 ORF,
\* 4 MultipleRoutes, 5 ExtendedNextHopEncoding, 64 GracefulRestart,
\* 65 FourByteASN, 67 DynamicCapability, 68 MultiSession, 69 AddPath,
\* 70 EnhancedRouteRefresh, 128..255 Private, anything else Other.
C15_CapabilityDecode ==
    pc = "decoded" =>
        IF Len(raw) < 2 THEN result = BadLength
        ELSE IF Len(raw) # At(raw, 1) + 2 THEN result = BadLength
        ELSE LET code == At(raw, 0)
                 Is(v) == result = Ok(v, raw)
             IN  /\ code = 0 => result = Invalid
                 /\ (code \in {1, 65, 69} /\ At(raw, 1) # 4) => result = Invalid
                 /\ (code \in {1, 65, 69} /\ At(raw, 1) = 4) =>
                       Is(CASE code = 1 -> "MultiProtocol"
                            [] code = 65 -> "FourByteASN"
                            [] code = 69 -> "AddPath")
                 /\ code = 2 => Is("RouteRefresh")
                 /\ code = 3 => Is("Orf")
                 /\ code = 4 => Is("MultipleRoutes")
                 /\ code = 5 => Is("ExtendedNextHopEncoding")
                 /\ code = 64 => Is("GracefulRestart")
                 /\ code = 67 => Is("DynamicCapability")
                 /\ code = 68 => Is("MultiSession")
                 /\ code = 70 => Is("EnhancedRouteRefresh")
                 /\ code \in 128..255 => Is("Private")
                 /\ code \in (6..63) \cup {66} \cup (71..127) => Is("Other")

\* an AddPath capability with its 4-byte value was decoded
C15_Witness ==
    /\ pc = "decoded"
    /\ raw = <<69, 4, 0, 0, 0, 0>>
    /\ result = Ok("AddPath", raw)

----------------------------------------------------------------------------
(* Claims about OPEN optional parameters, checked under SpecIter.          *)

RECURSIVE ParamOffset(_)
\* where in encl the i-th call started, its predecessors having yielded
\* parameters: each took its 2-byte header and its value
ParamOffset(i) ==
    IF i = 1 THEN 0 ELSE ParamOffset(i - 1) + 2 + Len(hist[i - 1].bytes)

\* C16: optional-parameter iteration yields one element per parameter in
\* wire order, consuming 2 + length bytes each: Capability over the value
\* for type 2, Unknown(type) for every other type; a residual shorter than
\* 2 bytes or than 2 + length yields BadLength; after the last parameter
\* the next step returns end-of-sequence.
C16_ParamsInWireOrder ==
    (Iterating /\ it.kind = "OpenParams") =>
        \A i \in 1..Len(hist) :
            AllOkBefore(i) =>
                LET y == hist[i]
                    r == Drop(encl, ParamOffset(i))
                IN  IF Len(r) = 0 THEN y.tag = "None"
                    ELSE IF Len(r) < 2 THEN y.tag = "BadLength"
                    ELSE IF Len(r) < 2 + At(r, 1) THEN y.tag = "BadLength"
                    ELSE /\ y.tag = "Ok"
                         /\ y.bytes = SubSeq(r, 3, 2 + At(r, 1))
                         /\ IF At(r, 0) = 2
                            THEN y.variant = "Capability" /\ y.val = <<>>
                            ELSE y.variant = "Unknown" /\ y.val = <<At(r, 0)>>

\* the six capability parameters of the repository's OPEN test were yielded
\* in order, then end-of-sequence
C16_Witness ==
    /\ Iterating /\ it.kind = "OpenParams"
    /\ Len(encl) = 36 /\ Len(hist) = 7
    /\ \A i \in 1..6 : hist[i].variant = "Capability"
    /\ << CapabilityFromBytes(hist[1].bytes).tag,
          CapabilityFromBytes(hist[2].bytes).tag,
          CapabilityFromBytes(hist[3].bytes).tag,
          CapabilityFromBytes(hist[4].bytes).tag,
          CapabilityFromBytes(hist[5].bytes).tag,
          CapabilityFromBytes(hist[6].bytes).tag >>
         = << "MultiProtocol", "Private", "RouteRefresh",
              "EnhancedRouteRefresh", "AddPath", "FourByteASN" >>
    /\ hist[7].tag = "None"

----------------------------------------------------------------------------
(* bgp/notification.rs: the NOTIFICATION decoder.                          *)

\* the variant of (error_code, error_subcode), "" when there is none
NotificationName(error_code, error_subcode) ==
    CASE error_code = 1 /\ error_subcode = 1 -> "ConnectionNotSynchronised"
      [] error_code = 1 /\ error_subcode = 2 -> "BadMessageLength"
      [] error_code = 1 /\ error_subcode = 3 -> "BadMessageType"
      [] error_code = 2 /\ error_subcode = 1 -> "UnsupportedVersionNumber"
      [] error_code = 2 /\ error_subcode = 2 -> "BadPeerAs"
      [] error_code = 2 /\ error_subcode = 3 -> "BadBgpIdentifier"
      [] error_code = 2 /\ error_subcode = 4 -> "UnsupportedOptionalParameter"
      [] error_code = 2 /\ error_subcode = 5 -> "AuthenticationFailure"
      [] error_code = 2 /\ error_subcode = 6 -> "UnacceptableHoldTime"
      [] error_code = 3 /\ error_subcode = 1 -> "MalformedAttributeList"
      [] error_code = 3 /\ error_subcode = 2 -> "UnrecognizedWellKnownAttribute"
      [] error_code = 3 /\ error_subcode = 3 -> "MissingWellKnownAttribute"
      [] error_code = 3 /\ error_subcode = 4 -> "AttributeFlagsError"
      [] error_code = 3 /\ error_subcode = 5 -> "AttributeLengthError"
      [] error_code = 3 /\ error_subcode = 6 -> "InvalidOriginAttribute"
      [] error_code = 3 /\ error_subcode = 7 -> "AsRoutingLoop"
      [] error_code = 3 /\ error_subcode = 8 -> "InvalidNextHopAttribute"
      [] error_code = 3 /\ error_subcode = 9 -> "OptionalAttributeError"
      [] error_code = 3 /\ error_subcode = 10 -> "InvalidNetworkField"
      [] error_code = 3 /\ error_subcode = 11 -> "MalformedAsPath"
      [] error_code = 4 -> "HoldTimerExpired"
      [] error_code = 5 -> "FiniteStateMachineError"
      [] error_code = 6 -> "Cease"
      [] OTHER -> ""

\* Cease is recognised with subcode 0 only
NotificationFromBytes_CeaseSubcodeZero(bytes) ==
    IF Len(bytes) < 2 THEN BadLength
    ELSE LET error_code == At(bytes, 0)
             error_subcode == At(bytes, 1)
             data == Drop(bytes, 2)
             name == NotificationName(error_code, error_subcode)
         IN  IF name = "" \/ (error_code = 6 /\ error_subcode # 0) THEN Invalid
             ELSE Ok(name, data)

NotificationFromBytes(bytes) ==
    IF Len(bytes) < 2 THEN BadLength
    ELSE LET error_code == At(bytes, 0)
             error_subcode == At(bytes, 1)
             data == Drop(bytes, 2)
             name == NotificationName(error_code, error_subcode)
         IN  IF name = "" THEN Invalid ELSE Ok(name, data)

----------------------------------------------------------------------------
(* The NOTIFICATION harness: one buffer is decoded.                        *)

\* longest data field of a NOTIFICATION
MaxNoteData == 2

NotificationBuffers ==
    { <<>> } \cup { <<c>> : c \in 0..7 }
      \cup { <<c, sc>> \o data :
               c \in 0..9 \cup {255}, sc \in 0..13 \cup {255},
               data \in Slices({0, 7}, MaxNoteData) }

InitNote ==
    /\ raw \in NotificationBuffers
    /\ proto = "bgp"
    /\ four_byte_asn = FALSE
    /\ add_path = FALSE
    /\ pc = "start"
    /\ result = NoResult
    /\ acc = NoResult
    /\ it = Idle
    /\ encl = <<>>
    /\ hist = <<>>

DecodeNotification ==
    /\ pc = "start"
    /\ result' = NotificationFromBytes(raw)
    /\ pc' = "decoded"
    /\ UNCHANGED <<raw, four_byte_asn, add_path, proto, acc, it, encl, hist>>

NextNote == DecodeNotification

SpecNote == InitNote /\ [][NextNote]_vars

\* the variants selected by subcode, per error code 1, 2 and 3
BySubcode ==
    << <<"ConnectionNotSynchronised", "BadMessageLength", "BadMessageType">>,
       <<"UnsupportedVersionNumber", "BadPeerAs", "BadBgpIdentifier",
         "UnsupportedOptionalParameter", "AuthenticationFailure",
         "UnacceptableHoldTime">>,
       <<"MalformedAttributeList", "UnrecognizedWellKnownAttribute",
         "MissingWellKnownAttribute", "AttributeFlagsError",
         "AttributeLengthError", "InvalidOriginAttribute", "AsRoutingLoop",
         "InvalidNextHopAttribute", "OptionalAttributeError",
         "InvalidNetworkField", "MalformedAsPath">> >>

\* C17: Notification::from_bytes returns BadLength for fewer than 2 bytes;
\* otherwise the variant of (code, subcode) carrying exactly the bytes after
\* the first two: codes 1 (subcodes 1..3), 2 (1..6) and 3 (1..11) select by
\* subcode, codes 4, 5 and 6 give HoldTimerExpired, FiniteStateMachineError
\* and Cease for any subcode, and every other pair gives Invalid.
C17_NotificationDecode ==
    pc = "decoded" =>
        IF Len(raw) < 2 THEN result = BadLength
        ELSE LET code == At(raw, 0)
                 sub == At(raw, 1)
                 data == Drop(raw, 2)
             IN  IF code \in 1..3 /\ sub \in 1..Len(BySubcode[code])
                 THEN result = Ok(BySubcode[code][sub], data)
                 ELSE IF code = 4 THEN result = Ok("HoldTimerExpired", data)
                 ELSE IF code = 5 THEN result = Ok("FiniteStateMachineError", data)
                 ELSE IF code = 6 THEN result = Ok("Cease", data)
                 ELSE result = Invalid

\* a Cease with subcode 7 and two data bytes was decoded
C17_Witness ==
    /\ pc = "decoded"
    /\ raw = <<6, 7, 0, 7>>
    /\ result = Ok("Cease", <<0, 7>>)

----------------------------------------------------------------------------
(* The BMP common header, as Bmp::from_bytes reads it.                     *)

\* the message types of the BMP common header, in type-code order
BmpTypes ==
    <<"RouteMonitoring", "StatisticsReport", "PeerDownNotification",
      "PeerUpNotification", "Initiation", "Termination", "RouteMirroring">>

\* C18: Bmp::from_bytes returns BadLength under 6 bytes, Invalid when byte 0
\* is not 3, BadLength when the big-endian length of bytes 1-4 differs from
\* the buffer length, and otherwise dispatches byte 5 over 0..6, any other
\* type being Invalid; a decoded BMP message has version 3 and a declared
\* length equal to the buffer length.
C18_BmpDecode ==
    (pc = "decoded" /\ proto = "bmp") =>
        /\ IF Len(raw) < 6 THEN result = BadLength
           ELSE IF At(raw, 0) # 3 THEN result = Invalid
           ELSE IF  At(raw, 1) # 0 \/ At(raw, 2) # 0
                 \/ At(raw, 3) * 256 + At(raw, 4) # Len(raw)
                THEN result = BadLength
           ELSE IF At(raw, 5) \in 0..6
                THEN result = Ok(BmpTypes[At(raw, 5) + 1], raw)
           ELSE result = Invalid
        /\ result.ok =>
               /\ At(raw, 0) = 3
               /\ Take(Drop(raw, 1), 4) = <<0, 0, Len(raw) \div 256, Len(raw) % 256>>

\* a 7-byte RouteMirroring message was decoded
C18_Witness ==
    /\ pc = "decoded"
    /\ proto = "bmp"
    /\ raw = <<3, 0, 0, 0, 7, 6, 0>>
    /\ result = Ok("RouteMirroring", raw)

----------------------------------------------------------------------------
(* bmp/mod.rs: the Messages trait of the BMP message types.                *)

\* the types def_bmptype! gives a Messages implementation
HasMessages(variant) == variant \in {"RouteMonitoring", "PeerUpNotification"}

\* the offset handed to def_bmptype! (Messages $offset)
MessagesOffset(variant) ==
    IF variant = "PeerUpNotification" THEN 48 + 20 ELSE 48

\* a BMP message of the given type around a body
BmpAround(ty, body) == <<3, 0, 0, 0, 6 + Len(body), ty>> \o body

\* per-peer header (and, for PeerUp, the session descriptor) followed by
\* embedded messages; and messages that end before or at the offset
BmpMessageBuffers ==
    { BmpAround(ty, Pad(42) \o (IF ty = 3 THEN Pad(20) ELSE <<>>) \o e) :
        ty \in {0, 1, 3, 6}, e \in MessageInputs }
      \cup { BmpAround(ty, Pad(n)) : ty \in {0, 3, 6}, n \in {0, 41, 42, 61} }

InitEmb ==
    /\ raw \in BmpMessageBuffers
    /\ proto = "bmp"
    /\ four_byte_asn \in BOOLEAN
    /\ add_path \in BOOLEAN
    /\ pc = "start"
    /\ result = NoResult
    /\ acc = NoResult
    /\ it = Idle
    /\ encl = <<>>
    /\ hist = <<>>

DecodeBmpMessage ==
    /\ pc = "start"
    /\ result' = BmpFromBytes(raw)
    /\ pc' = "decoded"
    /\ UNCHANGED <<raw, four_byte_asn, add_path, proto, acc, it, encl, hist>>

\* messages(four_byte_asn, add_path) on a type that implements Messages;
\* &self.inner[offset..] panics when the message ends before the offset
CallMessages ==
    /\ pc = "decoded"
    /\ result.ok
    /\ HasMessages(result.tag)
    /\ IF Len(result.inner) < MessagesOffset(result.tag)
       THEN /\ pc' = "panicked"
            /\ UNCHANGED <<it, encl>>
       ELSE /\ it' = Iter("MessageIter",
                          Drop(result.inner, MessagesOffset(result.tag)),
                          four_byte_asn, add_path)
            /\ encl' = Drop(result.inner, MessagesOffset(result.tag))
            /\ pc' = "iterating"
    /\ UNCHANGED <<raw, four_byte_asn, add_path, proto, result, acc, hist>>

NextEmb == DecodeBmpMessage \/ CallMessages \/ NextMessage

SpecEmb == InitEmb /\ [][NextEmb]_vars

\* bytes consumed by the messages yielded before the i-th call
RECURSIVE MessageOffset(_)
MessageOffset(i) ==
    IF i = 1 THEN 0 ELSE MessageOffset(i - 1) + Len(hist[i - 1].bytes)

\* what the i-th call returns when the calls before it returned messages:
\* the messages in wire order, each decoded with the caller's flags from a
\* slice of the length declared at +16; end-of-sequence on an empty
\* residual; BadLength on a residual shorter than 19 bytes or than the
\* declared length
EmbeddedInWireOrder ==
    \A i \in 1..Len(hist) :
        AllOkBefore(i) =>
            LET residual == Drop(encl, MessageOffset(i))
                declared == At(residual, 16) * 256 + At(residual, 17)
                slice == Take(residual, declared)
            IN  IF residual = <<>> THEN hist[i] = YNone
                ELSE IF Len(residual) < 19 \/ Len(residual) < declared
                     THEN hist[i] = YErr(BadLength, "step")
                ELSE hist[i] = YDecoded(MessageFromBytes(slice, four_byte_asn,
                                                         add_path), slice)

----------------------------------------------------------------------------
(* BMP statistics: the typed (type, length) pairs.                         *)

\* bytes consumed by the statistics yielded before the i-th call
RECURSIVE StatOffset(_)
StatOffset(i) ==
    IF i = 1 THEN 0 ELSE StatOffset(i - 1) + 4 + Len(hist[i - 1].bytes)

\* C20: statistics iteration yields a typed counter or gauge, its value read
\* big-endian, exactly for the (type, length) pairs (0..6, 4), (11..13, 4),
\* (7..8, 8) and (9..10, 11: AFI, SAFI and a 64-bit gauge); every other
\* pair yields Unknown carrying the value bytes as an Ok element, and the
\* iteration goes on with the next TLV.
C20_TypedStatistics ==
    (Iterating /\ it.kind = "StatisticsIter") =>
        \A i \in 1..Len(hist) :
            LET residual == Drop(encl, StatOffset(i))
                type == At(residual, 0) * 256 + At(residual, 1)
                length == At(residual, 2) * 256 + At(residual, 3)
                value == Take(Drop(residual, 4), length)
                y == hist[i]
                be(k, n) == [j \in 1..n |-> value[k + 2 * j - 1] * 256
                                            + value[k + 2 * j]]
            IN  (AllOkBefore(i) /\ Len(residual) >= 4
                                /\ Len(residual) >= 4 + length) =>
                    /\ y.tag = "Ok"
                    /\ y.bytes = value
                    /\ IF (type \in 0..6 \cup 11..13) /\ length = 4
                       THEN y.variant # "Unknown" /\ y.val = be(0, 2)
                       ELSE IF type \in 7..8 /\ length = 8
                       THEN y.variant # "Unknown" /\ y.val = be(0, 4)
                       ELSE IF type \in 9..10 /\ length = 11
                       THEN /\ y.variant # "Unknown"
                            /\ y.val = <<value[1] * 256 + value[2], value[3]>>
                                           \o be(3, 4)
                       ELSE y.variant = "Unknown" /\ y.val = <<>>

\* a per-AFI/SAFI gauge under length 4 came out as Unknown and the counter
\* after it was still decoded
C20_Witness ==
    /\ Iterating
    /\ it.kind = "StatisticsIter"
    /\ encl = <<0, 9, 0, 4, 1, 2, 3, 4, 0, 12, 0, 4, 1, 0, 0, 9>>
    /\ Len(hist) = 2
    /\ hist[1] = YOk("Unknown", <<1, 2, 3, 4>>)
    /\ hist[2] = YOkVal("PrefixesTreatedAsWithdraws", <<1, 0, 0, 9>>, <<256, 9>>)

----------------------------------------------------------------------------
(* BMP information TLVs.                                                   *)

\* bytes consumed by the information TLVs yielded before the i-th call
RECURSIVE InfoOffset(_)
InfoOffset(i) ==
    IF i = 1 THEN 0 ELSE InfoOffset(i - 1) + 4 + Len(hist[i - 1].bytes)

\* C21: information-TLV iteration yields String, SysDescr or SysName for
\* types 0, 1, 2 when the value is valid UTF-8; yields Invalid and then
\* end-of-sequence when a value of type 0, 1 or 2 is not valid UTF-8; and
\* yields the opaque value bytes for every other type, whatever the value
\* bytes are.
C21_InfoTlvs ==
    (Iterating /\ it.kind = "RouterInfoIter") =>
        \A i \in 1..Len(hist) :
            LET residual == Drop(encl, InfoOffset(i))
                type == At(residual, 0) * 256 + At(residual, 1)
                length == At(residual, 2) * 256 + At(residual, 3)
                value == Take(Drop(residual, 4), length)
                y == hist[i]
            IN  (AllOkBefore(i) /\ Len(residual) >= 4
                                /\ Len(residual) >= 4 + length) =>
                    IF type \in 0..2
                    THEN IF Utf8Valid(value)
                         THEN y = YOk(CASE type = 0 -> "String"
                                        [] type = 1 -> "SysDescr"
                                        [] OTHER -> "SysName", value)
                         ELSE y.tag = "Invalid" /\ FinalYield(i)
                    ELSE y = YOk("Other", value)

----------------------------------------------------------------------------
(* MP_REACH prefixes.                                                      *)

\* bytes consumed by the prefixes yielded before the i-th call
RECURSIVE MpNlriOffset(_)
MpNlriOffset(i) ==
    IF i = 1 THEN 0 ELSE MpNlriOffset(i - 1) + Len(hist[i - 1].bytes)

\* C22: MP_REACH prefix iteration never yields a prefix whose mask exceeds
\* the family's cap (32 for the IPv4 iterator, 128 for the IPv6 one); a mask
\* byte above the cap and a truncated final prefix are reported through the
\* step's result (BadLength for truncation), after which every step returns
\* end-of-sequence; prefixes within the cap are yielded in wire order with
\* 1 + ceil(m/8) bytes each.
C22_MaskCapped ==
    (Iterating /\ it.kind \in {"Ipv4NlriIter", "Ipv6NlriIter"}) =>
        LET cap == IF it.kind = "Ipv4NlriIter" THEN 32 ELSE 128
        IN  \A i \in 1..Len(hist) :
                LET residual == Drop(encl, MpNlriOffset(i))
                    m == At(residual, 0)
                    y == hist[i]
                IN  /\ y.tag = "Ok" => At(y.bytes, 0) <= cap
                    /\ (AllOkBefore(i) /\ Len(residual) > 0) =>
                           IF m > cap
                           THEN y.tag \in {"BadLength", "Invalid"} /\ FinalYield(i)
                           ELSE IF Len(residual) < 1 + Ceil8(m)
                           THEN y.tag = "BadLength" /\ FinalYield(i)
                           ELSE y = YOk("Nlri", Take(residual, 1 + Ceil8(m)))

----------------------------------------------------------------------------
(* The re-iteration harness: an UPDATE is decoded, possibly decoded again, *)
(* and the caller asks the view for its sequences any number of times,     *)
(* stepping each iterator it gets; the yields of the iterator asked for    *)
(* before the current one are kept.                                        *)

\* bodies with a truncated withdrawn route, an Origin attribute followed by
\* an NLRI, a reserved attribute code, and two withdrawn routes
RestartBodies ==
    { <<0, 1, 9, 0, 0>>,
      <<0, 0, 0, 4, 64, 1, 1, 0, 8, 10>>,
      <<0, 2, 8, 10, 0, 3, 64, 0, 0, 9>>,
      <<0, 3, 0, 8, 10, 0, 0, 16, 1, 2>> }

RestartBuffers ==
    { VALID_BGP_MARKER \o <<0, 19 + Len(body), 2>> \o body :
        body \in RestartBodies \cup Slices({0, 1}, MaxUpdBody - 2) }

NoEarlier == [view |-> NoResult, kind |-> "none", earlier |-> <<>>]

InitRe ==
    /\ proto = "bgp"
    /\ raw \in RestartBuffers
    /\ four_byte_asn \in BOOLEAN
    /\ add_path \in BOOLEAN
    /\ pc = "start"
    /\ result = NoResult
    /\ acc = NoEarlier
    /\ it = Idle
    /\ encl = <<>>
    /\ hist = <<>>

DecodeOnce ==
    /\ pc = "start"
    /\ result' = MessageFromBytes(raw, four_byte_asn, add_path)
    /\ pc' = "decoded"
    /\ UNCHANGED <<raw, four_byte_asn, add_path, proto, acc, it, encl, hist>>

\* the same buffer is decoded once more with the same flags
DecodeAgain ==
    /\ pc \in {"decoded", "iterating"}
    /\ acc.view = NoResult
    /\ acc' = [acc EXCEPT !.view = MessageFromBytes(raw, four_byte_asn, add_path)]
    /\ UNCHANGED <<raw, four_byte_asn, add_path, proto, pc, result, it, encl, hist>>

\* withdrawn_routes(), path_attrs() or nlris() on the view
Sequence(u, kind) ==
    CASE kind = "WithdrawnRoutes" -> UpdateWithdrawnRoutes(u)
      [] kind = "PathAttrIter" -> UpdatePathAttrs(u)
      [] OTHER -> UpdateNlris(u)

\* the new iterator takes up where the iterator before it stopped
AskSequence_SharedCursor ==
    /\ pc \in {"decoded", "iterating"}
    /\ result.ok
    /\ result.tag = "Update"
    /\ \E kind \in {"WithdrawnRoutes", "PathAttrIter", "NlriIter"} :
         LET r == Sequence(result, kind)
         IN  IF r = Panic
             THEN /\ pc' = "panicked"
                  /\ UNCHANGED <<acc, it, encl, hist>>
             ELSE /\ pc' = "iterating"
                  /\ acc' = [acc EXCEPT !.kind = it.kind, !.earlier = hist]
                  /\ it' = IF it.kind = kind THEN it
                           ELSE Iter(kind, r.inner, four_byte_asn, add_path)
                  /\ encl' = r.inner
                  /\ hist' = <<>>
    /\ UNCHANGED <<raw, four_byte_asn, add_path, proto, result>>

\* the caller asks the view for a sequence: a fresh iterator over the
\* view's bytes; the iterator it had is dropped, its yields remembered
AskSequence ==
    /\ pc \in {"decoded", "iterating"}
    /\ result.ok
    /\ result.tag = "Update"
    /\ \E kind \in {"WithdrawnRoutes", "PathAttrIter", "NlriIter"} :
         LET r == Sequence(result, kind)
         IN  IF r = Panic
             THEN /\ pc' = "panicked"
                  /\ UNCHANGED <<acc, it, encl, hist>>
             ELSE /\ pc' = "iterating"
                  /\ acc' = [acc EXCEPT !.kind = it.kind, !.earlier = hist]
                  /\ it' = Iter(kind, r.inner, four_byte_asn, add_path)
                  /\ encl' = r.inner
                  /\ hist' = <<>>
    /\ UNCHANGED <<raw, four_byte_asn, add_path, proto, result>>

NextRe ==
    \/ DecodeOnce \/ DecodeAgain \/ AskSequence
    \/ NextWithdrawnRoutes \/ NextPathAttr \/ NextNlri

SpecRe == InitRe /\ [][NextRe]_vars

----------------------------------------------------------------------------
(* message/open/mod.rs: the accessors of the Open view.  They index the    *)
(* OPEN body, which follows the 19-byte envelope of the decoded message.   *)

OpenBody(o) == Drop(o.inner, 19)

\* self.inner[0]
OpenVersion(o) ==
    IF Len(OpenBody(o)) < 1 THEN Panic
    ELSE Ok("version", <<At(OpenBody(o), 0)>>)

\* (self.inner[1] as u32) << 8 | self.inner[2] as u32
OpenAutNum(o) ==
    IF Len(OpenBody(o)) < 3 THEN Panic
    ELSE Ok("aut_num", <<0, At(OpenBody(o), 1) * 256 + At(OpenBody(o), 2)>>)

\* (self.inner[3] as u16) << 8 | self.inner[4] as u16
OpenHoldTime(o) ==
    IF Len(OpenBody(o)) < 5 THEN Panic
    ELSE Ok("hold_time", <<At(OpenBody(o), 3) * 256 + At(OpenBody(o), 4)>>)

\* the four bytes self.inner[5..9], big-endian
OpenIdent(o) ==
    IF Len(OpenBody(o)) < 9 THEN Panic
    ELSE Ok("ident", <<At(OpenBody(o), 5) * 256 + At(OpenBody(o), 6),
                       At(OpenBody(o), 7) * 256 + At(OpenBody(o), 8)>>)

\* the parameters are taken from body offset 11
OpenParamsOf_FromEleven(o) ==
    IF Len(OpenBody(o)) < 11 THEN Panic
    ELSE Ok("OpenParams", Drop(OpenBody(o), 11))

\* OpenParams::new(&self.inner[10..])
OpenParamsOf(o) ==
    IF Len(OpenBody(o)) < 10 THEN Panic
    ELSE Ok("OpenParams", Drop(OpenBody(o), 10))

----------------------------------------------------------------------------
(* The OPEN harness: a framed message of type 1 is decoded, the caller     *)
(* reads the fixed fields and iterates the optional parameters.            *)

\* fixed part (version 4, AS 1, hold time 90, identifier 1.2.3.4), the
\* optional-parameters length, and the parameters that follow it
OpenBodies ==
    { <<4, 0, 1, 0, 90, 1, 2, 3, 4, optlen>> \o params :
        optlen \in {0, 4, 6},
        params \in { <<>>, <<2, 2, 2, 0>>, <<2, 2, 2, 0, 9, 0>>, <<2, 2, 2>> } }

\* framed OPEN messages whose body is a whole or a cut-off OpenBodies member
OpenBuffers ==
    UNION { { VALID_BGP_MARKER \o <<0, 19 + n, 1>> \o Take(body, n) :
                n \in 0..Len(body) } : body \in OpenBodies }

InitOpen ==
    /\ proto = "bgp"
    /\ raw \in OpenBuffers
    /\ four_byte_asn = FALSE
    /\ add_path = FALSE
    /\ pc = "start"
    /\ result = NoResult
    /\ acc = NoResult
    /\ it = Idle
    /\ encl = <<>>
    /\ hist = <<>>

DecodeOpen ==
    /\ pc = "start"
    /\ result' = MessageFromBytes(raw, four_byte_asn, add_path)
    /\ pc' = "decoded"
    /\ UNCHANGED <<raw, four_byte_asn, add_path, proto, acc, it, encl, hist>>

\* version(), aut_num(), hold_time() or ident() on the view
CallOpenField ==
    /\ pc \in {"decoded", "accessed"}
    /\ result.ok
    /\ result.tag = "Open"
    /\ \E r \in { OpenVersion(result), OpenAutNum(result),
                  OpenHoldTime(result), OpenIdent(result) } :
         /\ acc' = r
         /\ pc' = IF r = Panic THEN "panicked" ELSE "accessed"
    /\ UNCHANGED <<raw, four_byte_asn, add_path, proto, result, it, encl, hist>>

\* params() on the view
CallParams ==
    /\ pc \in {"decoded", "accessed"}
    /\ result.ok
    /\ result.tag = "Open"
    /\ LET r == OpenParamsOf(result)
       IN  IF r = Panic
           THEN /\ pc' = "panicked"
                /\ acc' = Panic
                /\ UNCHANGED <<it, encl>>
           ELSE /\ pc' = "iterating"
                /\ acc' = r
                /\ it' = Iter("OpenParams", r.inner, FALSE, FALSE)
                /\ encl' = r.inner
    /\ UNCHANGED <<raw, four_byte_asn, add_path, proto, result, hist>>

NextOpen == DecodeOpen \/ CallOpenField \/ CallParams \/ NextOpenParam

SpecOpen == InitOpen /\ [][NextOpen]_vars

\* C24: a well-framed type-1 message of 19..28 bytes fails with BadLength,
\* so that version, ASN, hold time, identifier and the optional-parameter
\* slice at body offset 10 are readable on every decoded Open view.
C24_OpenFixedPart ==
    /\ (pc # "start" /\ Len(raw) \in 19..28) => result = BadLength
    /\ (pc # "start" /\ Len(raw) >= 29) => result = Ok("Open", raw)
    /\ pc # "panicked"
    /\ acc # Panic
    /\ acc.tag = "ident" =>
           acc.inner = <<raw[25] * 256 + raw[26], raw[27] * 256 + raw[28]>>
    /\ acc.tag = "OpenParams" => acc.inner = Drop(raw, 29)

\* the shortest OPEN that decodes (29 bytes) was asked for its parameters
\* and gave an empty sequence
C24_Witness ==
    /\ pc = "iterating"
    /\ Len(raw) = 29
    /\ result = Ok("Open", raw)
    /\ acc = Ok("OpenParams", <<>>)
    /\ hist = <<YNone>>


\* C30: for a decoded OPEN the optional-parameters length (body byte 9)
\* never exceeds the bytes that follow the 10-byte fixed part, and the bytes
\* consumed by iterating params() to the end without error sum to it.
C30_ParamsCoverDeclared ==
    /\ (result.ok /\ result.tag = "Open") =>
           At(OpenBody(result), 9) <= Len(OpenBody(result)) - 10
    /\ (pc = "iterating" /\ it.kind = "OpenParams" /\ result.ok) =>
           \A k \in 1..Len(hist) :
               (hist[k].tag = "None" /\ AllOkBefore(k)) =>
                   ParamOffset(k) = At(OpenBody(result), 9)

----------------------------------------------------------------------------
(* Claims about attribute codes 7, 8, 10 and 16 and about the views'       *)
(* header accessors, checked under SpecAttr.                               *)

\* C25: an attribute with type code 7 and declared length 6 or 8 decodes,
\* to As4Aggregator when four_byte_asn is set and to Aggregator otherwise;
\* any other declared length yields Invalid.
C25_AggregatorAsStated ==
    (pc # "start" /\ HeaderComplete(raw) /\ At(raw, 1) = 7) =>
        result = IF DeclaredLen(raw) \in {6, 8}
                 THEN Ok(IF four_byte_asn THEN "As4Aggregator" ELSE "Aggregator",
                         raw)
                 ELSE Invalid

\* C25 (as the code has it): type code 7 decodes to As4Aggregator when
\* four_byte_asn is set and the declared length is 8, to Aggregator when
\* the flag is clear and the declared length is 6, and yields Invalid for
\* every other combination of flag and length.
C25_AggregatorByFlagAndLength ==
    (pc # "start" /\ HeaderComplete(raw) /\ At(raw, 1) = 7) =>
        result = IF four_byte_asn /\ DeclaredLen(raw) = 8
                 THEN Ok("As4Aggregator", raw)
                 ELSE IF ~four_byte_asn /\ DeclaredLen(raw) = 6
                 THEN Ok("Aggregator", raw)
                 ELSE Invalid

\* an 8-byte aggregator was decoded as As4Aggregator under four_byte_asn
C25_Witness ==
    /\ pc = "decoded"
    /\ four_byte_asn
    /\ raw = <<64, 7, 8>> \o Pad(8)
    /\ result = Ok("As4Aggregator", raw)


\* bytes consumed by the attributes yielded before the i-th call
RECURSIVE AttrOffset(_)
AttrOffset(i) ==
    IF i = 1 THEN 0 ELSE AttrOffset(i - 1) + Len(hist[i - 1].bytes)

\* C26: a Communities (code 8) or ClusterList (code 10) attribute whose
\* declared length is not a multiple of 4, and an ExtendedCommunities (code
\* 16) attribute whose declared length is not a multiple of 8, is rejected
\* with Invalid when the path-attribute sequence decodes it.
C26_CommunityLengths ==
    (Iterating /\ it.kind = "PathAttrIter") =>
        \A i \in 1..Len(hist) :
            LET residual == Drop(encl, AttrOffset(i))
                code == At(residual, 1)
                len == DeclaredLen(residual)
                whole == Len(residual) >= len + (IF HasBit(At(residual, 0),
                                                          FLAG_EXT_LEN)
                                                 THEN 4 ELSE 3)
            IN  ( /\ AllOkBefore(i)
                  /\ HeaderComplete(residual)
                  /\ whole
                  /\ \/ code \in {8, 10} /\ len % 4 # 0
                     \/ code = 16 /\ len % 8 # 0 )
                => hist[i].tag = "Invalid"

----------------------------------------------------------------------------
(* Termination of the lazy sequences: the caller keeps calling next().     *)

SpecIterFair == InitIter /\ [][NextIter]_vars /\ WF_vars(NextIter)

\* next() has returned end-of-sequence, or the iteration was aborted
Ended ==
    \/ pc = "panicked"
    \/ hist # <<>> /\ hist[Len(hist)].tag = "None"

\* the caller's MaxSteps calls are used up on a sequence longer than that:
\* every call so far has consumed at least one byte
OutOfCalls ==
    /\ Len(hist) = MaxSteps
    /\ Len(it.inner) + Len(hist) <= Len(encl)

\* C27: every lazy sequence terminates: repeated next() calls return
\* end-of-sequence after finitely many yields, for the embedded-message
\* iterator also when the length field of an embedded envelope is 0 or
\* below 19.
C27_Terminates == <>(Ended \/ OutOfCalls)

\* ---------------------------------------------------------------------
\* bmp/mod.rs: the fixed-offset accessors of the decoded BMP types

\* the types instantiated with PeerInfo by def_bmptype!
HasPeerInfo(variant) ==
    variant \in {"RouteMonitoring", "StatisticsReport",
                 "PeerUpNotification", "RouteMirroring"}

\* PerPeer { inner: &self.inner[6..6+42] }
PeerInfoOf(b) ==
    IF Len(b.inner) < 6 + 42 THEN Panic
    ELSE Ok("PerPeer", SubSeq(b.inner, 7, 48))

\* slice = &self.inner[48..]; slice[0] .. slice[3] as one big-endian u32
StatsCountOf(b) ==
    IF Len(b.inner) < 48 + 4 THEN Panic
    ELSE Ok("stats_count", Limbs(SubSeq(b.inner, 49, 52)))

\* StatisticsIter { inner: &self.inner[48 + 4..], error: false }
StatsOf(b) ==
    IF Len(b.inner) < 48 + 4 THEN Panic
    ELSE Ok("StatisticsIter", Drop(b.inner, 48 + 4))

\* messages of the four per-peer types: ending before, inside and after the
\* per-peer header, the count and the session descriptor, and complete
\* statistics reports
BmpPeerBuffers ==
    { BmpAround(ty, Pad(n)) :
        ty \in {0, 1, 3, 6}, n \in {0, 41, 42, 43, 45, 46, 61, 62} }
      \cup { BmpAround(1, Pad(42) \o <<0, 0, 0, 1>> \o t) : t \in StatTlvs }
      \cup { BmpAround(0, Pad(42) \o e) : e \in MessageInputs }

InitPeer ==
    /\ raw \in BmpPeerBuffers
    /\ proto = "bmp"
    /\ four_byte_asn \in BOOLEAN
    /\ add_path \in BOOLEAN
    /\ pc = "start"
    /\ result = NoResult
    /\ acc = NoResult
    /\ it = Idle
    /\ encl = <<>>
    /\ hist = <<>>

CallPeerInfo ==
    /\ pc \in {"decoded", "accessed"}
    /\ result.ok
    /\ HasPeerInfo(result.tag)
    /\ acc' = PeerInfoOf(result)
    /\ pc' = IF acc' = Panic THEN "panicked" ELSE "accessed"
    /\ UNCHANGED <<raw, four_byte_asn, add_path, proto, result, it, encl, hist>>

CallStatsCount ==
    /\ pc \in {"decoded", "accessed"}
    /\ result.ok
    /\ result.tag = "StatisticsReport"
    /\ acc' = StatsCountOf(result)
    /\ pc' = IF acc' = Panic THEN "panicked" ELSE "accessed"
    /\ UNCHANGED <<raw, four_byte_asn, add_path, proto, result, it, encl, hist>>

CallStats ==
    /\ pc \in {"decoded", "accessed"}
    /\ result.ok
    /\ result.tag = "StatisticsReport"
    /\ LET r == StatsOf(result)
       IN  IF r = Panic
           THEN /\ pc' = "panicked"
                /\ acc' = Panic
                /\ UNCHANGED <<it, encl>>
           ELSE /\ pc' = "iterating"
                /\ acc' = r
                /\ it' = Iter("StatisticsIter", r.inner, FALSE, FALSE)
                /\ encl' = r.inner
    /\ UNCHANGED <<raw, four_byte_asn, add_path, proto, result, hist>>

NextPeer ==
    \/ DecodeBmpMessage
    \/ CallPeerInfo
    \/ CallMessages
    \/ CallStatsCount
    \/ CallStats
    \/ NextMessage
    \/ NextStatistic

SpecPeer == InitPeer /\ [][NextPeer]_vars

\* C28: on a successfully decoded RouteMonitoring, StatisticsReport,
\* PeerUpNotification or RouteMirroring message no fixed-offset accessor
\* (peer_info, messages, stats_count, stats) reads outside the buffer, that
\* is, none of them aborts before an iteration has started
C28_AccessorsInBounds ==
    (result.ok /\ HasPeerInfo(result.tag)) =>
        ~(pc = "panicked" /\ hist = <<>>)

\* ---------------------------------------------------------------------
\* bgp/update/path_attr/mod.rs: the header accessors that define_path_attr!
\* gives every attribute view

\* fn flags(&self) -> u8 { self.inner[0] }
AttrFlags(attr) == Ok("flags", <<At(attr.inner, 0)>>)

\* fn code(&self) -> u8 { self.inner[0] }
AttrCode(attr) == Ok("code", <<At(attr.inner, 0)>>)

InitHdr ==
    /\ raw \in AttrVectors
    /\ four_byte_asn \in BOOLEAN
    /\ add_path = FALSE
    /\ proto = "bgp"
    /\ pc = "start"
    /\ result = NoResult
    /\ acc = NoResult
    /\ it = Idle
    /\ encl = <<>>
    /\ hist = <<>>

CallAttrFlags ==
    /\ pc \in {"decoded", "accessed"}
    /\ result.ok
    /\ acc' = AttrFlags(result)
    /\ pc' = "accessed"
    /\ UNCHANGED <<raw, four_byte_asn, add_path, proto, result, it, encl, hist>>

CallAttrCode ==
    /\ pc \in {"decoded", "accessed"}
    /\ result.ok
    /\ acc' = AttrCode(result)
    /\ pc' = "accessed"
    /\ UNCHANGED <<raw, four_byte_asn, add_path, proto, result, it, encl, hist>>

NextHdr == DecodeAttr \/ CallAttrFlags \/ CallAttrCode

SpecHdr == InitHdr /\ [][NextHdr]_vars

\* C29: on every view PathAttr::from_bytes produces, flags() is the first
\* header byte and code() is the second header byte, the type code the
\* decoder dispatched on: 1 on an Origin view, 3 on a NextHop view
C29_FlagsAndCode ==
    (pc = "accessed" /\ result.ok /\ Len(raw) >= 2) =>
        /\ acc.tag = "flags" => acc.inner = <<At(raw, 0)>>
        /\ acc.tag = "code" =>
             /\ acc.inner = <<At(raw, 1)>>
             /\ result.tag = "Origin" => acc.inner = <<1>>
             /\ result.tag = "NextHop" => acc.inner = <<3>>

====
